---- MODULE Spec2Model ----
(***************************************************************************)
(* TPS translation proxy: the translation pipeline                          *)
(* (TranslationWorkflow.translate), the cost controller (CostController)    *)
(* and the two tables it works on (TranslationDAO: translations and         *)
(* daily_usage_stats).                                                      *)
(*                                                                          *)
(* The server runs on one asyncio event loop: a request runs atomically     *)
(* from one await on the store or on a backend to the next, and requests    *)
(* interleave at those awaits.  A step of the model is one store statement  *)
(* or one backend call of one request, together with the synchronous code   *)
(* that follows it up to the next such statement.                           *)
(***************************************************************************)
EXTENDS Integers, Sequences, FiniteSets, TLC

(***************************************************************************)
(* Bounds of the model.                                                     *)
(***************************************************************************)
NumReq == 2          \* requests in flight at the same time
NumWf == 1           \* TranslationWorkflow instances alive at the same time
MaxUsage == 2        \* record_usage calls per calendar day
TextChars == 500000  \* len(text) of the request text
OpenAITokens == 8000000  \* prompt tokens, and completion tokens, of one OpenAI call

MaxNow == 2          \* seconds the store's clock runs for
NumCallers == 3      \* concurrent increment_usage_stats calls on one row

Req == 1..NumReq
Caller == 1..NumCallers
Wf == 1..NumWf

\* The requests whose history is kept.  The requests are interchangeable, so
\* what holds of the observed request holds of every request.
Observed == {1}

(***************************************************************************)
(* Program constants.                                                       *)
(***************************************************************************)
DailyBudgetGoogle == 10
DailyBudgetOpenAI == 5
GooglePricePerMillionChars == 20
Million == 1000000
SecondsPerDay == 86400

Tiers == {"deepl", "openai", "google"}
\* Faulty variant: the OpenAI tier is tried first.
TierOrderOpenAIFirst == <<"openai", "deepl", "google">>

\* Order: DeepL -> OpenAI -> Google, then the end of the chain.
TierOrder == <<"deepl", "openai", "google">>
UsageProviders == {"deepl", "openai_trans", "openai_refine", "google"}
Bools == {TRUE, FALSE}

\* The fingerprint of the request text; one text per key in this model.
Keys == {"k1"}

VARIABLES
    cache,      \* translations table: cache_key -> row
    usage,      \* daily_usage_stats rows with date = date.today(): provider -> row
    quota,      \* CostController._quota_exceeded of each workflow instance
    pc,         \* position of each request in translate()
    wf,         \* the workflow instance the request runs on
    key,        \* cache_key of the request
    opts,       \* TranslationOptions.enable_refinement of the request
    cached,     \* the row get_cached_translation returned, while it is read
    tier,       \* index in TierOrder of the tier being walked
    result,     \* translated_text / provider_used / is_refined / refinement_model
    resp,       \* the TranslationResponse returned
    calls,      \* history: backend methods this request has invoked
    passed,     \* history: tiers this request left without a result
    recorded,   \* history: providers this request recorded usage for
    touched,    \* history: update_last_accessed calls of this request
    wrote,      \* history: upsert_translation calls of this request
    hit,        \* history: the lookup found a row the request may be served from
    atStart,    \* history: the gates as they stood when the request started
    prev,       \* history: the last cache write for the key before the request
    lastWrite,  \* history: the last pipeline write of each cache row
    tripped,    \* history: deepl raised QuotaExceeded and no reset was called since
    watch,      \* which of the histories the specification keeps
    refinedDone,\* history: the refined answer no identical request has followed yet
    now,        \* the store's clock: CURRENT_TIMESTAMP, in whole seconds
    inc,        \* position and arguments of each increment_usage_stats call
    writer,     \* the call whose connection holds SQLite's write lock, or 0
    base,       \* history: the usage row before the first of the calls
    target,     \* the provider the concurrent increment_usage_stats calls name
    got,        \* what get_daily_usage last returned for the row of the calls
    request,    \* a translate request as its caller gives it
    outcome,    \* how far that request got: options, fingerprint, or an error
    lastOp,     \* history: the last set / reset call on each provider name
    answer,     \* what the controller last answered, and to which question
    totalAsk,   \* the is_openai_budget_exceeded call in progress, or its answer
    locked,     \* CostController._lock is held
    pair,       \* two calls of generate_cache_key: their arguments
    digest,     \* the keys the two calls have returned so far
    sweep,      \* the last delete_expired_entries call: its argument and its answer
    scan,       \* the order in which the store returns rows of equal created_at
    listing,    \* a client paging through get_translations_paginated
    client,     \* per backend: the lazily created handle of the client object
    conf,       \* the configuration the client objects were built from
    task,       \* per caller: its position in a call on a backend client
    mgr,        \* DatabaseManager: the singleton, its lock, the open connections
    db,         \* per caller: its position in get_instance or a store operation
    fetch,      \* a _fetch_with_retry call: attempt, delay, waits, outcome
    past,       \* the daily_usage_stats rows of the day before today
    summary,    \* the latest get_daily_summary call and what it returned
    stored,     \* the translations table with all its columns, as a set of rows
    writers     \* per request: the upsert_translation call it ends with

\* The state of the operations that are checked apart from the pipeline.
callVars == <<inc, writer, base, target, got>>
keyVars == <<pair, digest>>
entryVars == <<request, outcome, keyVars>>
ctlVars == <<lastOp, answer, totalAsk, locked>>
sweepVars == <<sweep>>
listVars == <<scan, listing>>
clientVars == <<client, conf, task>>
dbVars == <<mgr, db>>
fetchVars == <<fetch>>
summaryVars == <<past, summary>>
upsertVars == <<stored, writers>>
lifeVars == <<clientVars, dbVars, fetchVars, summaryVars, upsertVars>>
sideVars == <<callVars, entryVars, ctlVars, sweepVars, listVars, lifeVars>>

\* What no step of the pipeline writes.
otherVars == <<now, sideVars>>

vars == <<cache, usage, quota, pc, wf, key, opts, cached, tier, result, resp,
          calls, passed, recorded, touched, wrote, hit, atStart, prev,
          lastWrite, tripped, watch, refinedDone, otherVars>>

storeVars == <<cache, usage, quota>>
histVars == <<calls, passed, recorded, touched, wrote, hit, atStart, prev,
              lastWrite, tripped, watch, refinedDone>>
requestVars == <<pc, wf, key, opts, cached, tier, result, resp>>

(***************************************************************************)
(* Values.                                                                  *)
(***************************************************************************)
NoRow == [present |-> FALSE, translated_text |-> "", provider |-> "",
          is_refined |-> FALSE, refinement_model |-> "",
          created_at |-> 0, last_accessed_at |-> 0]

NoUsage == [request_count |-> 0, char_count |-> 0, token_input |-> 0,
            token_output |-> 0, cost_estimated |-> 0]

NoResult == [text |-> "", provider |-> "", is_refined |-> FALSE,
             refinement_model |-> ""]

NoResp == [returned |-> FALSE, success |-> FALSE, text |-> "", provider |-> "",
           is_refined |-> FALSE, is_cached |-> FALSE, error |-> "",
           original_text |-> ""]

NoPrev == [known |-> FALSE, text |-> "", is_refined |-> FALSE,
           enable_refinement |-> FALSE]

NoDelta == [char_count |-> 0, token_input |-> 0, token_output |-> 0,
            cost_estimated |-> 0]

NoGot == [known |-> FALSE, row |-> NoUsage, after |-> {}]

NoCall == [pc |-> "idle", delta |-> NoDelta]

\* An optional string: None, or the characters of a str.
Null == [null |-> TRUE, str |-> <<>>]
Str(chars) == [null |-> FALSE, str |-> chars]

NoRequest ==
    [entry |-> "none", text |-> Null, source_lang |-> Null,
     target_lang |-> Null, format |-> Null, enable_refinement |-> FALSE,
     preferred_provider |-> Null]

NoKeyCall == [text |-> Null, source_lang |-> Null, target_lang |-> Null,
              format |-> Null]

NoOutcome == [state |-> "pending", key |-> <<>>]

NoTotalAsk == [at |-> "idle", total |-> 0, atStart |-> 0, atEnd |-> 0,
               exceeded |-> FALSE]

NoFilter == [providers |-> {}, is_refined |-> "any"]

NoListing ==
    [at |-> "idle", entry |-> "none", filter |-> NoFilter, page_size |-> 0,
     page |-> 0, first |-> <<>>, items |-> <<>>, totals |-> {}]

NoSweep == [days |-> -1, count |-> 0]

NoAnswer == [asked |-> "", quota |-> FALSE, budget |-> FALSE]

NoDone == [known |-> FALSE, text |-> ""]

NoStart == [quota |-> "open", budget |-> "open", tripped |-> FALSE]

\* What each backend answers for the request text.
DraftText(p) ==
    CASE p = "deepl" -> "deepl_draft"
      [] p = "openai" -> "openai_draft"
      [] p = "google" -> "google_draft"

\* What openai.refine answers for a draft.
RefinedText(d) ==
    CASE d = "deepl_draft" -> "deepl_refined"
      [] d = "google_draft" -> "google_refined"
      [] OTHER -> "openai_refined"

RefinementModel == "gpt-4o-mini"

\* The request text of a key.
TextOf(k) == "Hello"

\* Spellings a caller may give a provider name in.
Spellings == {"deepl", "DeepL"}

\* The case-folded provider names, and the spellings callers give them in.
ProviderNames == {"deepl", "google", "openai"}
ProviderSpellings ==
    {"deepl", "DeepL", "DEEPL", "google", "Google", "openai", "OpenAI"}

(***************************************************************************)
(* CostController: the quota-exceeded set.                                  *)
(***************************************************************************)
\* str.lower() on the provider names the callers use.
Lower(p) ==
    CASE p \in {"DeepL", "DEEPL"} -> "deepl"
      [] p \in {"Google", "GOOGLE"} -> "google"
      [] p \in {"OpenAI", "OPENAI"} -> "openai"
      [] OTHER -> p

\* Faulty variant: the name is stored as the caller spells it.
SetQuotaExceededAsSpelled(q, p) == q \cup {p}

SetQuotaExceeded(q, p) == q \cup {Lower(p)}

IsQuotaExceeded(q, p) == Lower(p) \in q

ResetQuotaExceeded(q, p) == q \ {Lower(p)}

(***************************************************************************)
(* TranslationDAO: daily_usage_stats.                                       *)
(***************************************************************************)
\* A row is missing exactly when its request_count is 0: rows are inserted
\* with request_count = 1.
GetDailyUsage(u, p) == IF p \in DOMAIN u THEN u[p] ELSE NoUsage

\* Faulty variant: the cost is written by a statement of its own, later.
IncrementWithoutCost(u, p, d) ==
    [u EXCEPT ![p] = [request_count |-> @.request_count + 1,
                      char_count |-> @.char_count + d.char_count,
                      token_input |-> @.token_input + d.token_input,
                      token_output |-> @.token_output + d.token_output,
                      cost_estimated |-> @.cost_estimated]]

\* Faulty variant: a conflict adds the deltas but leaves request_count.
IncrementKeepsCount(u, p, d) ==
    [u EXCEPT ![p] = [request_count |-> IF @.request_count = 0 THEN 1
                                        ELSE @.request_count,
                      char_count |-> @.char_count + d.char_count,
                      token_input |-> @.token_input + d.token_input,
                      token_output |-> @.token_output + d.token_output,
                      cost_estimated |-> @.cost_estimated + d.cost_estimated]]

\* Faulty variant: INSERT OR REPLACE, the row is the last call's alone.
IncrementReplaces(u, p, d) ==
    [u EXCEPT ![p] = [request_count |-> 1, char_count |-> d.char_count,
                      token_input |-> d.token_input,
                      token_output |-> d.token_output,
                      cost_estimated |-> d.cost_estimated]]

\* INSERT ... VALUES (?, ?, 1, ...) ON CONFLICT(date, provider) DO UPDATE SET
\* request_count = request_count + 1, <counter> = <counter> + excluded.<counter>
IncrementUsageStats(u, p, d) ==
    [u EXCEPT ![p] =
        IF @.request_count = 0
        THEN [request_count |-> 1, char_count |-> d.char_count,
              token_input |-> d.token_input, token_output |-> d.token_output,
              cost_estimated |-> d.cost_estimated]
        ELSE [request_count |-> @.request_count + 1,
              char_count |-> @.char_count + d.char_count,
              token_input |-> @.token_input + d.token_input,
              token_output |-> @.token_output + d.token_output,
              cost_estimated |-> @.cost_estimated + d.cost_estimated]]

(***************************************************************************)
(* CostController: the budget predicates.                                   *)
(***************************************************************************)
\* (char_count / 1M) * price >= daily limit, without the division.
\* Faulty variant: the budget is exceeded only when the cost is above it.
CheckGoogleBudgetStrict(row) ==
    row.char_count * GooglePricePerMillionChars > DailyBudgetGoogle * Million

CheckGoogleBudget(row) ==
    row.char_count * GooglePricePerMillionChars >= DailyBudgetGoogle * Million

CheckOpenAIBudget(row) == row.cost_estimated >= DailyBudgetOpenAI

\* provider_lower = provider.lower(); usage = get_daily_usage(today,
\* provider_lower); None -> False; "google" -> _check_google_budget;
\* startswith("openai") -> _check_openai_budget; otherwise False.
IsBudgetExceeded(u, p) ==
    LET provider_lower == Lower(p)
        row == GetDailyUsage(u, provider_lower) IN
    IF row.request_count = 0 THEN FALSE
    ELSE IF provider_lower = "google" THEN CheckGoogleBudget(row)
    ELSE IF provider_lower \in {"openai", "openai_trans", "openai_refine"}
         THEN CheckOpenAIBudget(row)
    ELSE FALSE

\* Faulty variant: the combined cost counts the translation row only.
GetTotalOpenAICostOfTranslation(u) ==
    GetDailyUsage(u, "openai_trans").cost_estimated

GetTotalOpenAICost(u) ==
    GetDailyUsage(u, "openai_trans").cost_estimated
  + GetDailyUsage(u, "openai_refine").cost_estimated

IsOpenAIBudgetExceeded(u) == GetTotalOpenAICost(u) >= DailyBudgetOpenAI

(***************************************************************************)
(* Backends: what a successful call reports.                                *)
(***************************************************************************)
\* OpenAIClient._estimate_cost, in whole USD: $0.15 and $0.60 per 1M tokens.
EstimateCost(ti, to) == (ti * 15 + to * 60) \div (100 * Million)

\* GoogleTranslateClient: (char_count / 1M) * price per 1M chars.
GoogleCost(chars) == (chars * GooglePricePerMillionChars) \div Million

\* The usage record_usage is called with after a tier's translate.
TierUsage(t) ==
    CASE t = "deepl" ->
           [provider |-> "deepl", char_count |-> TextChars, token_input |-> 0,
            token_output |-> 0, cost_estimated |-> 0]
      [] t = "openai" ->
           [provider |-> "openai_trans", char_count |-> 0,
            token_input |-> OpenAITokens, token_output |-> OpenAITokens,
            cost_estimated |-> EstimateCost(OpenAITokens, OpenAITokens)]
      [] t = "google" ->
           [provider |-> "google", char_count |-> TextChars, token_input |-> 0,
            token_output |-> 0, cost_estimated |-> GoogleCost(TextChars)]

\* The usage record_usage is called with after openai.refine.
RefineUsage ==
    [provider |-> "openai_refine", char_count |-> 0,
     token_input |-> OpenAITokens, token_output |-> OpenAITokens,
     cost_estimated |-> EstimateCost(OpenAITokens, OpenAITokens)]

(***************************************************************************)
(* TranslationDAO: translations.                                            *)
(***************************************************************************)
\* expires_at is NULL on every row the pipeline writes, so a row that is
\* present is live.
GetCachedTranslation(c, k) == c[k]

\* Faulty variant: ON CONFLICT DO NOTHING.
UpsertInsertOnly(c, k, res, t) ==
    IF c[k].present THEN c
    ELSE [c EXCEPT ![k] = [present |-> TRUE, translated_text |-> res.text,
                           provider |-> res.provider,
                           is_refined |-> res.is_refined,
                           refinement_model |-> res.refinement_model,
                           created_at |-> t, last_accessed_at |-> t]]

\* DELETE FROM translations WHERE last_accessed_at < datetime('now',
\* '-<days_old> days'); return cursor.rowcount.
DeleteExpiredEntries(c, days_old, t) ==
    LET cutoff == t - days_old * SecondsPerDay
        gone == {k \in DOMAIN c : c[k].present /\ c[k].last_accessed_at < cutoff}
    IN [rows |-> [k \in DOMAIN c |-> IF k \in gone THEN NoRow ELSE c[k]],
        rowcount |-> Cardinality(gone)]

\* INSERT ... VALUES (..., CURRENT_TIMESTAMP, CURRENT_TIMESTAMP, ?)
\* ON CONFLICT(cache_key) DO UPDATE SET translated_text, provider,
\* is_refined, refinement_model = excluded.*, last_accessed_at =
\* CURRENT_TIMESTAMP: created_at is kept on conflict.
UpsertTranslation(c, k, res, t) ==
    [c EXCEPT ![k] = [present |-> TRUE, translated_text |-> res.text,
                      provider |-> res.provider, is_refined |-> res.is_refined,
                      refinement_model |-> res.refinement_model,
                      created_at |-> IF @.present THEN @.created_at ELSE t,
                      last_accessed_at |-> t]]

\* Faulty variant: the UPDATE has no WHERE clause.
UpdateLastAccessedEveryRow(c, k, t) ==
    [x \in DOMAIN c |->
        IF c[x].present THEN [c[x] EXCEPT !.last_accessed_at = t] ELSE c[x]]

\* UPDATE translations SET last_accessed_at = CURRENT_TIMESTAMP WHERE cache_key = ?
UpdateLastAccessed(c, k, t) ==
    IF c[k].present THEN [c EXCEPT ![k].last_accessed_at = t] ELSE c

(***************************************************************************)
(* TranslationWorkflow: the decisions of translate().                       *)
(***************************************************************************)
\* Faulty variant: a refined row does not serve a request that asks for refinement.
CacheServesUnrefinedOnly(enable_refinement, row) ==
    row.present /\ ~enable_refinement

\* if cached: if not options.enable_refinement or cached.is_refined
CacheServes(enable_refinement, row) ==
    row.present /\ (~enable_refinement \/ row.is_refined)

CacheHitResponse(row) ==
    [returned |-> TRUE, success |-> TRUE, text |-> row.translated_text,
     provider |-> "cache", is_refined |-> row.is_refined, is_cached |-> TRUE,
     error |-> "", original_text |-> ""]

\* Faulty variant: the failure response carries no message.
AllFailedNoMessage(k) ==
    [returned |-> TRUE, success |-> FALSE, text |-> "", provider |-> "",
     is_refined |-> FALSE, is_cached |-> FALSE, error |-> "",
     original_text |-> TextOf(k)]

AllFailedResponse(k) ==
    [returned |-> TRUE, success |-> FALSE, text |-> "", provider |-> "",
     is_refined |-> FALSE, is_cached |-> FALSE,
     error |-> "All translation providers failed or exceeded budget",
     original_text |-> TextOf(k)]

\* except Exception as e around _execute_translation_chain: error = str(e)
ChainErrorResponse(k) ==
    [returned |-> TRUE, success |-> FALSE, text |-> "", provider |-> "",
     is_refined |-> FALSE, is_cached |-> FALSE,
     error |-> "database is locked", original_text |-> TextOf(k)]

SuccessResponse(res) ==
    [returned |-> TRUE, success |-> TRUE, text |-> res.text,
     provider |-> res.provider, is_refined |-> res.is_refined,
     is_cached |-> FALSE, error |-> "", original_text |-> ""]

\* Faulty variant: the deepl tier is not gated by the quota flag.
GateClosedBudgetsOnly(t, q, u) ==
    CASE t = "deepl" -> FALSE
      [] t = "openai" -> IsOpenAIBudgetExceeded(u)
      [] t = "google" -> IsBudgetExceeded(u, "google")

\* The gate in front of each tier of _execute_translation_chain.
GateClosed(t, q, u) ==
    CASE t = "deepl" -> IsQuotaExceeded(q, "deepl")
      [] t = "openai" -> IsOpenAIBudgetExceeded(u)
      [] t = "google" -> IsBudgetExceeded(u, "google")

\* if options.enable_refinement and provider_used != "openai"
\* Faulty variant: the draft of the LLM tier is refined too.
ShouldRefineAnyDraft(enable_refinement, provider_used) == enable_refinement

ShouldRefine(enable_refinement, provider_used) ==
    enable_refinement /\ provider_used # "openai"

\* Faulty variant: is_refined starts out true.
DraftResultMarkedRefined(t) ==
    [text |-> DraftText(t), provider |-> t, is_refined |-> TRUE,
     refinement_model |-> ""]

\* Faulty variant: refinement is not gated by the budget.
RefineGateOpen(u) == FALSE

\* _try_refinement: the budget check in front of openai.refine.
RefineGateClosed(u) == IsOpenAIBudgetExceeded(u)

DraftResult(t) ==
    [text |-> DraftText(t), provider |-> t, is_refined |-> FALSE,
     refinement_model |-> ""]

\* Faulty variant: the refining provider takes the place of the tier's name.
RefinedResultByRefiner(res) ==
    [text |-> RefinedText(res.text), provider |-> "openai",
     is_refined |-> TRUE, refinement_model |-> RefinementModel]

\* Faulty variant: the model's name is not taken over from the refinement.
RefinedResultWithoutModel(res) ==
    [text |-> RefinedText(res.text), provider |-> res.provider,
     is_refined |-> TRUE, refinement_model |-> ""]

\* translated_text = refined_result.text; is_refined = True;
\* refinement_model = refined_result.model; provider_used stays.
RefinedResult(res) ==
    [text |-> RefinedText(res.text), provider |-> res.provider,
     is_refined |-> TRUE, refinement_model |-> RefinementModel]

UsageTotal(u) ==
    u["deepl"].request_count + u["openai_trans"].request_count
  + u["openai_refine"].request_count + u["google"].request_count

(***************************************************************************)
(* History of the observed requests.                                        *)
(***************************************************************************)
Called(h, r, t, m) ==
    IF r \in Observed THEN [h EXCEPT ![r] = @ \cup {<<t, m>>}] ELSE h

Left(h, r, t) == IF r \in Observed THEN [h EXCEPT ![r] = @ \cup {t}] ELSE h

Recorded(h, r, p) == IF r \in Observed THEN [h EXCEPT ![r] = Append(@, p)] ELSE h

Counted(h, r) == IF r \in Observed THEN [h EXCEPT ![r] = @ + 1] ELSE h

\* atStart and tripped are kept under "gates", prev and lastWrite under
\* "writes"; the other histories always.
Noted(h, r, w, v) ==
    IF r \in Observed /\ w \in watch THEN [h EXCEPT ![r] = v] ELSE h

Kept(old, w, new) == IF w \in watch THEN new ELSE old

(***************************************************************************)
(* Initial state: an empty database, fresh workflow instances, no request.  *)
(***************************************************************************)
InitRequests ==
    /\ pc = [r \in Req |-> "idle"]
    /\ wf = [r \in Req |-> 1]
    /\ key = [r \in Req |-> "k1"]
    /\ opts = [r \in Req |-> FALSE]
    /\ cached = [r \in Req |-> NoRow]
    /\ tier = [r \in Req |-> 0]
    /\ result = [r \in Req |-> NoResult]
    /\ resp = [r \in Req |-> NoResp]
    /\ calls = [r \in Req |-> {}]
    /\ passed = [r \in Req |-> {}]
    /\ recorded = [r \in Req |-> <<>>]
    /\ touched = [r \in Req |-> 0]
    /\ wrote = [r \in Req |-> 0]
    /\ hit = [r \in Req |-> FALSE]
    /\ atStart = [r \in Req |-> NoStart]
    /\ prev = [r \in Req |-> NoPrev]
    /\ lastWrite = [k \in Keys |-> NoPrev]
    /\ tripped = FALSE
    /\ refinedDone = [k \in Keys |-> NoDone]

\* No increment_usage_stats call is under way apart from the pipeline's.
InitCalls ==
    /\ inc = [c \in Caller |-> NoCall]
    /\ writer = 0
    /\ base = NoUsage
    /\ target = "google"
    /\ got = NoGot

\* No request is at the entry of the pipeline.
InitKeys ==
    /\ pair = <<NoKeyCall, NoKeyCall>>
    /\ digest = <<NoOutcome, NoOutcome>>

InitEntry ==
    /\ request = NoRequest
    /\ outcome = NoOutcome
    /\ InitKeys

\* Nothing was asked of the cost controller apart from the pipeline.
InitAsked ==
    /\ lastOp = [p \in ProviderNames |-> "none"]
    /\ answer = NoAnswer
    /\ totalAsk = NoTotalAsk
    /\ locked = FALSE

\* Nobody pages through the store.
InitListing ==
    /\ scan = <<"k1">>
    /\ listing = NoListing

\* No maintenance call was made on the store and nobody pages through it.
InitStore ==
    /\ sweep = NoSweep
    /\ InitListing

\* The client objects of a workflow: DeepLClient, OpenAIClient and
\* GoogleTranslateClient, each with its lazily created handle (0: None).
\* built counts the handles constructed, used collects the handles calls ran
\* on, failed tells that the lazy initialisation has raised, last is the
\* latest answer of is_available().
NoClient == [handle |-> 0, built |-> 0, used |-> {}, failed |-> FALSE, last |-> "none"]

ClientCallers == 1..NumCallers

NoTask == [at |-> "idle", backend |-> "", tiered |-> FALSE, handle |-> 0]

\* The settings: an API key per keyed backend; for Google whether the
\* credentials file named exists (or none is named), whether
\* TranslationServiceClient() can be constructed, and whether a project id is
\* found in the settings, the credentials file or the environment.
Configurations ==
    [key : [{"deepl", "openai"} -> Bools], creds : Bools, ctor : Bools, project : Bools]

\* No client object has been used.
InitClients ==
    /\ client = [b \in Tiers |-> NoClient]
    /\ conf = [key |-> [b \in {"deepl", "openai"} |-> TRUE], creds |-> TRUE,
               ctor |-> TRUE, project |-> TRUE]
    /\ task = [c \in ClientCallers |-> NoTask]

\* DatabaseManager._instance is None, its lock is free, nothing is open.
NoManager == [instance |-> 0, initialized |-> FALSE, runs |-> 0, lock |-> 0,
              open |-> 0, exits |-> {}]

NoCaller == [at |-> "idle", inst |-> 0, pragmas |-> FALSE, sound |-> TRUE,
             failed |-> FALSE]

InitDb ==
    /\ mgr = NoManager
    /\ db = [c \in ClientCallers |-> NoCaller]

NoFetch == [at |-> "idle", response_type |-> "json", attempt |-> 0, delay |-> 0,
            waits |-> <<>>, statuses |-> <<>>, returned |-> "nothing"]

InitFetch == fetch = NoFetch

NoSummary == [asked |-> FALSE, date |-> "", providers |-> {}, rows |-> <<>>,
              total_cost |-> 0, total_requests |-> 0,
              budgets |-> [google |-> [limit |-> 0, exceeded |-> FALSE],
                           openai |-> [limit |-> 0, exceeded |-> FALSE]]]

InitSummary ==
    /\ past = [p \in UsageProviders |-> NoUsage]
    /\ summary = NoSummary

NoWriter == [at |-> "idle", source_lang |-> "", original_text |-> "",
             translated_text |-> "", provider |-> "", is_refined |-> FALSE,
             refinement_model |-> "", inserted |-> FALSE, time |-> 0]

InitUpserts ==
    /\ stored = {}
    /\ writers = [i \in ClientCallers |-> NoWriter]

InitLife == InitClients /\ InitDb /\ InitFetch /\ InitSummary /\ InitUpserts

InitSide == InitCalls /\ InitEntry /\ InitAsked /\ InitStore /\ InitLife

InitState ==
    /\ cache = [k \in Keys |-> NoRow]
    /\ usage = [p \in UsageProviders |-> NoUsage]
    /\ quota = [w \in Wf |-> {}]
    /\ now = 0
    /\ InitRequests
    /\ InitSide

Init == InitState /\ watch = {"gates"}

(***************************************************************************)
(* translate(): fingerprint and cache lookup.                               *)
(***************************************************************************)
StartSnapshot(w) ==
    [quota |-> IF IsQuotaExceeded(quota[w], "deepl") THEN "set" ELSE "open",
     budget |-> IF IsOpenAIBudgetExceeded(usage) THEN "exceeded" ELSE "open",
     tripped |-> tripped]

PrevSnapshot(k, e) ==
    IF lastWrite[k].known /\ lastWrite[k].enable_refinement = e
    THEN lastWrite[k] ELSE NoPrev

\* A caller invokes translate on workflow instance w; the request runs up to
\* the answer of get_cached_translation and the hit test that follows it.
Translate(r) ==
    /\ pc[r] = "idle"
    /\ \E w \in Wf, k \in Keys, e \in Bools :
        LET row == GetCachedTranslation(cache, k) IN
        /\ wf' = [wf EXCEPT ![r] = w]
        /\ key' = [key EXCEPT ![r] = k]
        /\ opts' = [opts EXCEPT ![r] = e]
        /\ atStart' = Noted(atStart, r, "gates", StartSnapshot(w))
        /\ prev' = Noted(prev, r, "writes", PrevSnapshot(k, e))
        /\ refinedDone' = IF e THEN [refinedDone EXCEPT ![k] = NoDone]
                                ELSE refinedDone
        /\ hit' = Noted(hit, r, "gates",
                        row.present /\ (~e \/ row.is_refined))
        /\ IF CacheServes(e, row)
           THEN /\ pc' = [pc EXCEPT ![r] = "touch"]
                /\ cached' = [cached EXCEPT ![r] = row]
                /\ tier' = tier
           ELSE /\ pc' = [pc EXCEPT ![r] = "gate"]
                /\ cached' = cached
                /\ tier' = [tier EXCEPT ![r] = 1]
    /\ UNCHANGED <<storeVars, result, resp, calls, passed, recorded, touched,
                   wrote, lastWrite, tripped, watch, otherVars>>

\* update_last_accessed, then the cache response.
Touch(r) ==
    /\ pc[r] = "touch"
    /\ cache' = UpdateLastAccessed(cache, key[r], now)
    /\ touched' = Counted(touched, r)
    /\ resp' = [resp EXCEPT ![r] = CacheHitResponse(cached[r])]
    /\ pc' = [pc EXCEPT ![r] = "done"]
    /\ UNCHANGED <<usage, quota, wf, key, opts, cached, tier, result, calls,
                   passed, recorded, wrote, hit, atStart, prev, lastWrite, tripped,
                   watch, refinedDone, otherVars>>

(***************************************************************************)
(* _execute_translation_chain.                                              *)
(***************************************************************************)
\* The request leaves its current tier without a result: the next tier, or
\* after the last one "return None, None" and the failure response.
LeaveTier(r) ==
    /\ passed' = Left(passed, r, TierOrder[tier[r]])
    /\ IF tier[r] < Len(TierOrder)
       THEN /\ tier' = [tier EXCEPT ![r] = @ + 1]
            /\ pc' = [pc EXCEPT ![r] = "gate"]
            /\ resp' = resp
       ELSE /\ tier' = [tier EXCEPT ![r] = 0]
            /\ pc' = [pc EXCEPT ![r] = "done"]
            /\ resp' = [resp EXCEPT ![r] = AllFailedResponse(key[r])]

\* The gate of the current tier and, when it is open, is_available().
Gate(r) ==
    /\ pc[r] = "gate"
    /\ LET t == TierOrder[tier[r]] IN
       IF GateClosed(t, quota[wf[r]], usage)
       THEN /\ LeaveTier(r)
            /\ calls' = calls
       ELSE /\ calls' = Called(calls, r, t, "is_available")
            /\ \E available \in Bools :
                IF available
                THEN /\ pc' = [pc EXCEPT ![r] = "translate"]
                     /\ UNCHANGED <<tier, resp, passed>>
                ELSE LeaveTier(r)
    /\ UNCHANGED <<storeVars, wf, key, opts, cached, result, recorded, touched, wrote,
                   hit, atStart, prev, lastWrite, tripped, watch, refinedDone, otherVars>>

\* After a tier's result: refinement when asked for, else the cache write.
AfterTranslation(enable_refinement, provider_used) ==
    IF ShouldRefine(enable_refinement, provider_used)
    THEN "refine_gate" ELSE "upsert"

\* translate() of the current tier answers, and its usage is recorded.
TranslateOk(r) ==
    /\ pc[r] = "translate"
    /\ UsageTotal(usage) < MaxUsage
    /\ LET t == TierOrder[tier[r]]
           d == TierUsage(t) IN
       /\ calls' = Called(calls, r, t, "translate")
       /\ usage' = IncrementUsageStats(usage, d.provider, d)
       /\ recorded' = Recorded(recorded, r, d.provider)
       /\ result' = [result EXCEPT ![r] = DraftResult(t)]
       /\ pc' = [pc EXCEPT ![r] = AfterTranslation(opts[r], t)]
    /\ UNCHANGED <<cache, quota, wf, key, opts, cached, tier, resp, passed,
                   touched, wrote, hit, atStart, prev, lastWrite, tripped, watch, refinedDone, otherVars>>

\* except QuotaExceededException: only the deepl tier has this handler.
OnQuotaExceeded(t, q) == IF t = "deepl" THEN SetQuotaExceeded(q, "deepl") ELSE q

\* translate() of the current tier raises QuotaExceededException.
TranslateQuota(r) ==
    /\ pc[r] = "translate"
    /\ LET t == TierOrder[tier[r]] IN
       /\ calls' = Called(calls, r, t, "translate")
       /\ quota' = [quota EXCEPT ![wf[r]] = OnQuotaExceeded(t, @)]
       /\ tripped' = Kept(tripped, "gates", tripped \/ t = "deepl")
    /\ LeaveTier(r)
    /\ UNCHANGED <<cache, usage, wf, key, opts, cached, result, recorded,
                   touched, wrote, hit, atStart, prev, lastWrite, watch, refinedDone, otherVars>>

\* translate() of the current tier raises any other exception.
TranslateFails(r) ==
    /\ pc[r] = "translate"
    /\ calls' = Called(calls, r, TierOrder[tier[r]], "translate")
    /\ LeaveTier(r)
    /\ UNCHANGED <<storeVars, wf, key, opts, cached, result, recorded, touched, wrote,
                   hit, atStart, prev, lastWrite, tripped, watch, refinedDone, otherVars>>

(***************************************************************************)
(* _try_refinement.                                                         *)
(***************************************************************************)
RefineGate(r) ==
    /\ pc[r] = "refine_gate"
    /\ pc' = [pc EXCEPT ![r] =
                IF RefineGateClosed(usage) THEN "upsert" ELSE "refine"]
    /\ UNCHANGED <<storeVars, wf, key, opts, cached, tier, result, resp,
                   histVars, otherVars>>

RefineOk(r) ==
    /\ pc[r] = "refine"
    /\ UsageTotal(usage) < MaxUsage
    /\ calls' = Called(calls, r, "openai", "refine")
    /\ usage' = IncrementUsageStats(usage, RefineUsage.provider, RefineUsage)
    /\ recorded' = Recorded(recorded, r, RefineUsage.provider)
    /\ result' = [result EXCEPT ![r] = RefinedResult(@)]
    /\ pc' = [pc EXCEPT ![r] = "upsert"]
    /\ UNCHANGED <<cache, quota, wf, key, opts, cached, tier, resp, passed,
                   touched, wrote, hit, atStart, prev, lastWrite, tripped, watch, refinedDone, otherVars>>

RefineFails(r) ==
    /\ pc[r] = "refine"
    /\ calls' = Called(calls, r, "openai", "refine")
    /\ pc' = [pc EXCEPT ![r] = "upsert"]
    /\ UNCHANGED <<storeVars, wf, key, opts, cached, tier, result, resp,
                   passed, recorded, touched, wrote, hit, atStart, prev, lastWrite, tripped,
                   watch, refinedDone, otherVars>>

(***************************************************************************)
(* translate(): the cache write and the response.                           *)
(***************************************************************************)
Upsert(r) ==
    /\ pc[r] = "upsert"
    /\ cache' = UpsertTranslation(cache, key[r], result[r], now)
    /\ wrote' = Counted(wrote, r)
    /\ resp' = [resp EXCEPT ![r] = SuccessResponse(result[r])]
    /\ lastWrite' = Kept(lastWrite, "writes",
                        [lastWrite EXCEPT ![key[r]] =
                            [known |-> TRUE, text |-> result[r].text,
                             is_refined |-> result[r].is_refined,
                             enable_refinement |-> opts[r]]])
    /\ refinedDone' = Kept(refinedDone, "writes",
                          IF opts[r] /\ result[r].is_refined
                          THEN [refinedDone EXCEPT ![key[r]] =
                                   [known |-> TRUE, text |-> result[r].text]]
                          ELSE refinedDone)
    /\ pc' = [pc EXCEPT ![r] = "done"]
    /\ UNCHANGED <<usage, quota, wf, key, opts, cached, tier, result, calls,
                   passed, recorded, touched, hit, atStart, prev, tripped, watch,
                   otherVars>>

\* The caller has the response (or the exception); the request is over.
Finish(r) ==
    /\ pc[r] \in {"done", "raised"}
    /\ pc' = [pc EXCEPT ![r] = "idle"]
    /\ wf' = [wf EXCEPT ![r] = 1]
    /\ key' = [key EXCEPT ![r] = "k1"]
    /\ opts' = [opts EXCEPT ![r] = FALSE]
    /\ cached' = [cached EXCEPT ![r] = NoRow]
    /\ tier' = [tier EXCEPT ![r] = 0]
    /\ result' = [result EXCEPT ![r] = NoResult]
    /\ resp' = [resp EXCEPT ![r] = NoResp]
    /\ calls' = [calls EXCEPT ![r] = {}]
    /\ passed' = [passed EXCEPT ![r] = {}]
    /\ recorded' = [recorded EXCEPT ![r] = <<>>]
    /\ touched' = [touched EXCEPT ![r] = 0]
    /\ wrote' = [wrote EXCEPT ![r] = 0]
    /\ hit' = [hit EXCEPT ![r] = FALSE]
    /\ atStart' = [atStart EXCEPT ![r] = NoStart]
    /\ prev' = [prev EXCEPT ![r] = NoPrev]
    /\ UNCHANGED <<storeVars, lastWrite, tripped, watch, refinedDone, otherVars>>

(***************************************************************************)
(* Around the requests.                                                     *)
(***************************************************************************)
InFlight(r) == pc[r] \notin {"idle", "done", "raised"}

\* get_workflow(): a new CostController, so a new, empty quota set.  The
\* instance it replaces is no longer used by any request.
GetWorkflow(w) ==
    /\ \A r \in Req : InFlight(r) => wf[r] # w
    /\ quota[w] # {}
    /\ quota' = [quota EXCEPT ![w] = {}]
    /\ UNCHANGED <<cache, usage, pc, wf, key, opts, cached, tier, result, resp,
                   histVars, otherVars>>

\* reset_quota_exceeded(p) on the controller of workflow instance w.
ResetQuota(w, p) ==
    /\ quota[w] # {}
    /\ quota' = [quota EXCEPT ![w] = ResetQuotaExceeded(@, p)]
    /\ tripped' = Kept(tripped, "gates", tripped /\ Lower(p) # "deepl")
    /\ atStart' = [r \in Req |->
                     IF Lower(p) = "deepl"
                     THEN [atStart[r] EXCEPT
                             !.quota = IF @ = "set" /\ wf[r] = w
                                       THEN "reset" ELSE @,
                             !.tripped = FALSE]
                     ELSE atStart[r]]
    /\ UNCHANGED <<cache, usage, pc, wf, key, opts, cached, tier, result, resp,
                   calls, passed, recorded, touched, wrote, hit, prev, lastWrite, watch, refinedDone, otherVars>>

\* date.today() moves on: no usage row has the new date yet.
Midnight ==
    /\ UsageTotal(usage) > 0
    /\ usage' = [p \in UsageProviders |-> NoUsage]
    /\ atStart' = [r \in Req |->
                     [atStart[r] EXCEPT
                        !.budget = IF @ = "exceeded" THEN "rolled" ELSE @]]
    /\ UNCHANGED <<cache, quota, pc, wf, key, opts, cached, tier, result, resp,
                   calls, passed, recorded, touched, wrote, hit, prev, lastWrite, tripped,
                   watch, refinedDone, otherVars>>

(***************************************************************************)
(* Store failures: a statement of the DAO raises (sqlite3.OperationalError  *)
(* "database is locked" after the busy timeout, a full disk, ...).          *)
(***************************************************************************)
\* get_cached_translation raises: nothing in translate() catches it.
LookupRaises(r) ==
    /\ pc[r] = "idle"
    /\ pc' = [pc EXCEPT ![r] = "raised"]
    /\ UNCHANGED <<storeVars, wf, key, opts, cached, tier, result, resp,
                   histVars, otherVars>>

\* update_last_accessed raises: nothing in translate() catches it.
TouchRaises(r) ==
    /\ pc[r] = "touch"
    /\ pc' = [pc EXCEPT ![r] = "raised"]
    /\ UNCHANGED <<storeVars, wf, key, opts, cached, tier, result, resp,
                   histVars, otherVars>>

\* The budget read in front of the openai or google tier raises: it is outside
\* the tier's try, and the except around the chain in translate() answers.
GateRaises(r) ==
    /\ pc[r] = "gate"
    /\ TierOrder[tier[r]] \in {"openai", "google"}
    /\ tier' = [tier EXCEPT ![r] = 0]
    /\ resp' = [resp EXCEPT ![r] = ChainErrorResponse(key[r])]
    /\ pc' = [pc EXCEPT ![r] = "done"]
    /\ UNCHANGED <<storeVars, wf, key, opts, cached, result, histVars, otherVars>>

\* translate() of the current tier answers but record_usage raises: the tier's
\* except Exception takes it for a failure of the tier.
RecordRaises(r) ==
    /\ pc[r] = "translate"
    /\ calls' = Called(Called(calls, r, TierOrder[tier[r]], "translate"),
                       r, TierOrder[tier[r]], "returned")
    /\ LeaveTier(r)
    /\ UNCHANGED <<storeVars, wf, key, opts, cached, result, recorded, touched, wrote,
                   hit, atStart, prev, lastWrite, tripped, watch, refinedDone, otherVars>>

\* The budget read of _try_refinement raises: it is outside the try.
RefineGateRaises(r) ==
    /\ pc[r] = "refine_gate"
    /\ pc' = [pc EXCEPT ![r] = "raised"]
    /\ UNCHANGED <<storeVars, wf, key, opts, cached, tier, result, resp,
                   histVars, otherVars>>

\* refine() answers but record_usage raises: _try_refinement returns None.
RefineRecordRaises(r) ==
    /\ pc[r] = "refine"
    /\ calls' = Called(calls, r, "openai", "refine")
    /\ pc' = [pc EXCEPT ![r] = "upsert"]
    /\ UNCHANGED <<storeVars, wf, key, opts, cached, tier, result, resp,
                   passed, recorded, touched, wrote, hit, atStart, prev, lastWrite, tripped,
                   watch, refinedDone, otherVars>>

\* upsert_translation raises: nothing in translate() catches it.
UpsertRaises(r) ==
    /\ pc[r] = "upsert"
    /\ pc' = [pc EXCEPT ![r] = "raised"]
    /\ UNCHANGED <<storeVars, wf, key, opts, cached, tier, result, resp,
                   histVars, otherVars>>

Next ==
    \/ \E r \in Req :
          \/ Translate(r) \/ Touch(r) \/ Gate(r)
          \/ TranslateOk(r) \/ TranslateQuota(r) \/ TranslateFails(r)
          \/ RefineGate(r) \/ RefineOk(r) \/ RefineFails(r)
          \/ Upsert(r) \/ Finish(r)
    \/ \E w \in Wf : GetWorkflow(w)
    \/ \E w \in Wf, p \in Spellings : ResetQuota(w, p)
    \/ Midnight

Spec == Init /\ [][Next]_vars

\* The pipeline over a store whose statements may fail.
StoreFault ==
    \E r \in Req :
        \/ LookupRaises(r) \/ TouchRaises(r) \/ GateRaises(r)
        \/ RecordRaises(r) \/ RefineGateRaises(r) \/ RefineRecordRaises(r)
        \/ UpsertRaises(r)

NextFault == Next \/ StoreFault

InitFault == InitState /\ watch = {}

SpecFault == InitFault /\ [][NextFault]_vars

\* The pipeline with the history of the cache writes.
InitWrites == InitState /\ watch = {"writes"}

SpecWrites == InitWrites /\ [][Next]_vars

(***************************************************************************)
(* The pipeline under a running clock: the requests come one after the      *)
(* other, and the second of CURRENT_TIMESTAMP changes between their steps.  *)
(***************************************************************************)
\* A second goes by.
Tick ==
    /\ now < MaxNow
    /\ now' = now + 1
    /\ UNCHANGED <<cache, usage, quota, requestVars, histVars, sideVars>>

NextClock ==
    \/ Tick
    \/ \E r \in Observed :
          \/ Translate(r) \/ Touch(r) \/ Gate(r)
          \/ TranslateOk(r) \/ TranslateQuota(r) \/ TranslateFails(r)
          \/ RefineGate(r) \/ RefineOk(r) \/ RefineFails(r)
          \/ Upsert(r) \/ Finish(r)

InitClock == InitState /\ watch = {"writes"}

SpecClock == InitClock /\ [][NextClock]_vars

(***************************************************************************)
(* The store under maintenance: one request at a time runs the pipeline on *)
(* its key, the cleanup script calls delete_expired_entries, and the clock  *)
(* moves on by seconds or by days.  A second row may have been written      *)
(* before.                                                                   *)
(***************************************************************************)
StoreKeys == {"k1", "k2"}
StoreTimes == {0, 1, SecondsPerDay, SecondsPerDay + 1}
SweepDays == {0, 1, 2}

\* The row an earlier request has left under the other key, if any.
SeedRows ==
    {NoRow,
     [present |-> TRUE, translated_text |-> DraftText("deepl"),
      provider |-> "deepl", is_refined |-> FALSE, refinement_model |-> "",
      created_at |-> 0, last_accessed_at |-> 0]}

InitSwept ==
    /\ cache \in {[k \in StoreKeys |-> IF k = "k2" THEN row ELSE NoRow] :
                    row \in SeedRows}
    /\ usage = [p \in UsageProviders |-> NoUsage]
    /\ quota = [w \in Wf |-> {}]
    /\ now = 0
    /\ InitRequests
    /\ InitSide
    /\ watch = {}

\* CURRENT_TIMESTAMP and datetime('now') move on.
StoreAdvance ==
    /\ \E t \in StoreTimes : t > now /\ now' = t
    /\ UNCHANGED <<cache, usage, quota, requestVars, histVars, sideVars>>

\* cleanup_cache(days): dao.delete_expired_entries(days)
Sweep(days) ==
    /\ LET done == DeleteExpiredEntries(cache, days, now) IN
        /\ cache' = done.rows
        /\ sweep' = [days |-> days, count |-> done.rowcount]
    /\ UNCHANGED <<usage, quota, requestVars, histVars, now, callVars, entryVars,
                   ctlVars, listVars, lifeVars>>

NextSwept ==
    \/ StoreAdvance
    \/ \E d \in SweepDays : Sweep(d)
    \/ \E r \in Observed :
          \/ Translate(r) \/ Touch(r) \/ Gate(r)
          \/ TranslateOk(r) \/ TranslateQuota(r) \/ TranslateFails(r)
          \/ RefineGate(r) \/ RefineOk(r) \/ RefineFails(r)
          \/ Upsert(r) \/ Finish(r)

SpecSwept == InitSwept /\ [][NextSwept]_vars

(***************************************************************************)
(* The cache listing: a client pages through get_translations_paginated,   *)
(* through the route or on the DAO, over a table that does not change.      *)
(***************************************************************************)
ListKeys == {"k1", "k2", "k3"}

\* The rows the pipeline may have left: written in second 0 or second 1.
ListRows ==
    {NoRow} \cup
    {[present |-> TRUE, translated_text |-> DraftText(t), provider |-> t,
      is_refined |-> FALSE, refinement_model |-> "",
      created_at |-> at, last_accessed_at |-> at] :
        t \in {"deepl", "google"}, at \in {0, 1}}

\* The orders in which a scan of the table may meet its rows.
ScanOrders ==
    {o \in [1..Cardinality(ListKeys) -> ListKeys] :
        \A i, j \in DOMAIN o : i # j => o[i] # o[j]}

\* The filters of a listing: a set of providers, the refined flag, or none.
ListFilters ==
    {NoFilter, [providers |-> {"deepl"}, is_refined |-> "any"],
     [providers |-> {}, is_refined |-> "no"]}

PageSizes == {-1, 0, 1, 2, 101}

\* Query(default=20, ge=1, le=100) of list_translations
MinPageSize == 1
MaxPageSize == 100

\* WHERE provider IN (...) AND is_refined = ?, each condition only when the
\* argument is given.
Matches(row, f) ==
    /\ row.present
    /\ f.providers # {} => row.provider \in f.providers
    /\ f.is_refined # "any" => row.is_refined = (f.is_refined = "yes")

Position(o, k) == CHOOSE i \in DOMAIN o : o[i] = k

\* ORDER BY created_at DESC; rows of equal created_at in the order of the scan.
RECURSIVE OrderByCreatedDesc(_, _, _)
OrderByCreatedDesc(c, o, ks) ==
    IF ks = {} THEN <<>>
    ELSE LET top == CHOOSE k \in ks :
                      \A j \in ks \ {k} :
                         \/ c[k].created_at > c[j].created_at
                         \/ /\ c[k].created_at = c[j].created_at
                            /\ Position(o, k) < Position(o, j)
         IN <<top>> \o OrderByCreatedDesc(c, o, ks \ {top})

\* LIMIT ? OFFSET ?: a negative limit is no limit, a negative offset is 0.
LimitOffset(rows, limit, offset) ==
    LET from == IF offset < 0 THEN 0 ELSE offset
        upto == IF limit < 0 \/ from + limit > Len(rows)
                THEN Len(rows) ELSE from + limit
    IN SubSeq(rows, from + 1, upto)

\* Faulty variant: the offset of page p is p * page_size.
GetTranslationsPaginatedFromZero(c, o, page, page_size, f) ==
    LET matching == {k \in DOMAIN c : Matches(c[k], f)} IN
    [items |-> LimitOffset(OrderByCreatedDesc(c, o, matching), page_size,
                           page * page_size),
     total |-> Cardinality(matching)]

\* get_translations_paginated: SELECT COUNT(*) ... WHERE ..., then
\* SELECT * ... WHERE ... ORDER BY created_at DESC LIMIT page_size
\* OFFSET (page - 1) * page_size.
GetTranslationsPaginated(c, o, page, page_size, f) ==
    LET matching == {k \in DOMAIN c : Matches(c[k], f)} IN
    [items |-> LimitOffset(OrderByCreatedDesc(c, o, matching), page_size,
                           (page - 1) * page_size),
     total |-> Cardinality(matching)]

InitList ==
    /\ cache \in [ListKeys -> ListRows]
    /\ usage = [p \in UsageProviders |-> NoUsage]
    /\ quota = [w \in Wf |-> {}]
    /\ now = 1
    /\ InitRequests
    /\ watch = {}
    /\ InitCalls
    /\ InitEntry
    /\ InitAsked
    /\ InitLife
    /\ sweep = NoSweep
    /\ scan \in ScanOrders
    /\ listing = NoListing

\* A client starts at page 1 with a page size and a filter of its choosing.
ListBegin(entry, page_size, f) ==
    /\ listing.at = "idle"
    /\ listing' = [NoListing EXCEPT !.at = "asking", !.entry = entry,
                                    !.filter = f, !.page_size = page_size,
                                    !.page = 1]
    /\ UNCHANGED <<cache, usage, quota, requestVars, histVars, now, callVars,
                   entryVars, ctlVars, sweepVars, scan, lifeVars>>

\* list_translations: a page_size outside ge=1, le=100 is answered 422.
ListRejected ==
    /\ listing.at = "asking"
    /\ listing.entry = "route"
    /\ listing.page_size < MinPageSize \/ listing.page_size > MaxPageSize
    /\ listing' = [listing EXCEPT !.at = "rejected"]
    /\ UNCHANGED <<cache, usage, quota, requestVars, histVars, now, callVars,
                   entryVars, ctlVars, sweepVars, scan, lifeVars>>

\* One page is fetched; the client goes on to the next page while
\* page < ceil(total / page_size).
ListPage ==
    /\ listing.at = "asking"
    /\ listing.entry = "route" =>
          listing.page_size >= MinPageSize /\ listing.page_size <= MaxPageSize
    /\ LET fetched == GetTranslationsPaginated(cache, scan, listing.page,
                                               listing.page_size, listing.filter)
           last == listing.page_size < 1
                   \/ listing.page * listing.page_size >= fetched.total
       IN listing' = [listing EXCEPT
                        !.at = IF last THEN "done" ELSE "asking",
                        !.page = IF last THEN @ ELSE @ + 1,
                        !.first = IF listing.page = 1 THEN fetched.items ELSE @,
                        !.items = @ \o fetched.items,
                        !.totals = @ \cup {fetched.total}]
    /\ UNCHANGED <<cache, usage, quota, requestVars, histVars, now, callVars,
                   entryVars, ctlVars, sweepVars, scan, lifeVars>>

NextList ==
    \/ \E e \in {"route", "dao"}, ps \in PageSizes, f \in ListFilters :
          ListBegin(e, ps, f)
    \/ ListRejected
    \/ ListPage

SpecList == InitList /\ [][NextList]_vars

(***************************************************************************)
(* TranslationDAO.increment_usage_stats called concurrently on one          *)
(* (date, provider): each call opens its own connection, executes the       *)
(* upsert statement and commits.  SQLite admits one writer at a time: the   *)
(* statement takes the write lock, which the commit releases, and a         *)
(* statement that finds the lock taken fails after busy_timeout.            *)
(***************************************************************************)
\* The arguments a call may be given.
Deltas ==
    {NoDelta,
     [char_count |-> 5, token_input |-> 0, token_output |-> 0,
      cost_estimated |-> 1],
     [char_count |-> 0, token_input |-> 3, token_output |-> 4,
      cost_estimated |-> 2]}

\* The rows the calls may find: none, or one that earlier calls have made.
BaseRows ==
    {NoUsage,
     [request_count |-> 2, char_count |-> 5, token_input |-> 3,
      token_output |-> 4, cost_estimated |-> 3]}

pipelineVars == <<cache, quota, requestVars, histVars, now>>

InitUsage ==
    /\ cache = [k \in Keys |-> NoRow]
    /\ quota = [w \in Wf |-> {}]
    /\ now = 0
    /\ InitRequests
    /\ watch = {}
    /\ InitEntry
    /\ InitAsked
    /\ InitLife
    /\ InitStore
    /\ inc = [c \in Caller |-> NoCall]
    /\ writer = 0
    /\ got = NoGot
    /\ target \in {"google", "openai_refine"}
    /\ base \in BaseRows
    /\ usage = [p \in UsageProviders |-> IF p = target THEN base ELSE NoUsage]

\* async with self.db.get_connection() as conn
IncrementOpen(c) ==
    /\ inc[c].pc = "idle"
    /\ \E d \in Deltas : inc' = [inc EXCEPT ![c] = [pc |-> "open", delta |-> d]]
    /\ UNCHANGED <<usage, writer, base, target, got, pipelineVars, entryVars, ctlVars,
                   sweepVars, listVars, lifeVars>>

\* await conn.execute(INSERT ... ON CONFLICT ... DO UPDATE ...)
IncrementExecute(c) ==
    /\ inc[c].pc = "open"
    /\ writer = 0
    /\ writer' = c
    /\ inc' = [inc EXCEPT ![c].pc = "executed"]
    /\ UNCHANGED <<usage, base, target, got, pipelineVars, entryVars, ctlVars,
                   sweepVars, listVars, lifeVars>>

\* The statement waited busy_timeout for the write lock: OperationalError.
IncrementBusy(c) ==
    /\ inc[c].pc = "open"
    /\ writer \notin {0, c}
    /\ inc' = [inc EXCEPT ![c].pc = "failed"]
    /\ UNCHANGED <<usage, writer, base, target, got, pipelineVars, entryVars, ctlVars,
                   sweepVars, listVars, lifeVars>>

\* await conn.commit(): the statement's effect is in the table.
IncrementCommit(c) ==
    /\ inc[c].pc = "executed"
    /\ writer = c
    /\ usage' = IncrementUsageStats(usage, target, inc[c].delta)
    /\ writer' = 0
    /\ inc' = [inc EXCEPT ![c].pc = "committed"]
    /\ UNCHANGED <<base, target, got, pipelineVars, entryVars, ctlVars, sweepVars,
                   listVars, lifeVars>>

\* get_daily_usage(today, provider): the committed row, or None.
UsageGet ==
    /\ got' = [known |-> TRUE, row |-> GetDailyUsage(usage, target),
               after |-> {c \in Caller : inc[c].pc = "committed"}]
    /\ UNCHANGED <<usage, inc, writer, base, target, pipelineVars, entryVars,
                   ctlVars, sweepVars, listVars, lifeVars>>

NextUsage ==
    \/ \E c \in Caller :
          \/ IncrementOpen(c) \/ IncrementExecute(c)
          \/ IncrementBusy(c) \/ IncrementCommit(c)
    \/ UsageGet

SpecUsage == InitUsage /\ [][NextUsage]_vars

(***************************************************************************)
(* The entry of a request: the POST /translate handler builds the options   *)
(* and calls translate(), which computes the fingerprint first.             *)
(***************************************************************************)
\* str.lower() on the characters the requests are made of.
LowerChar(c) ==
    CASE c = "E" -> "e" [] c = "N" -> "n" [] c = "H" -> "h"
      [] c = "T" -> "t" [] c = "M" -> "m" [] c = "L" -> "l"
      [] c = "W" -> "w"
      [] OTHER -> c

LowerStr(chars) == [i \in DOMAIN chars |-> LowerChar(chars[i])]

RECURSIVE StripLeft(_)
StripLeft(chars) ==
    IF chars # <<>> /\ Head(chars) = " " THEN StripLeft(Tail(chars)) ELSE chars

RECURSIVE StripRight(_)
StripRight(chars) ==
    IF chars # <<>> /\ chars[Len(chars)] = " "
    THEN StripRight(SubSeq(chars, 1, Len(chars) - 1)) ELSE chars

\* str.strip()
Strip(chars) == StripRight(StripLeft(chars))

Plain == <<"p", "l", "a", "i", "n">>

\* Faulty variant: the source language goes into the key as it is spelled.
GenerateCacheKeyCaseSensitive(text, source_lang, target_lang, format_type) ==
    IF text.null \/ source_lang.null \/ target_lang.null
    THEN [raised |-> TRUE, key |-> <<>>]
    ELSE [raised |-> FALSE,
          key |-> <<"md5">> \o Strip(source_lang.str) \o <<"|">>
                  \o Strip(LowerStr(target_lang.str)) \o <<"|">>
                  \o Strip(LowerStr(IF format_type.null \/ format_type.str = <<>>
                                     THEN Plain ELSE format_type.str))
                  \o <<"|">> \o Strip(text.str)]

\* generate_cache_key: text.strip(), source_lang.lower().strip(),
\* target_lang.lower().strip(), (format_type or "plain").lower().strip();
\* a None has neither strip nor lower (AttributeError).  The MD5 digest is
\* kept as the composite string it is the digest of.
GenerateCacheKey(text, source_lang, target_lang, format_type) ==
    IF text.null \/ source_lang.null \/ target_lang.null
    THEN [raised |-> TRUE, key |-> <<>>]
    ELSE [raised |-> FALSE,
          key |-> <<"md5">> \o Strip(LowerStr(source_lang.str)) \o <<"|">>
                  \o Strip(LowerStr(target_lang.str)) \o <<"|">>
                  \o Strip(LowerStr(IF format_type.null \/ format_type.str = <<>>
                                     THEN Plain ELSE format_type.str))
                  \o <<"|">> \o Strip(text.str)]

\* The fields of the TranslationOptions dataclass.
TranslationOptionsFields == {"format_type", "enable_refinement", "refinement_model"}

\* The keyword arguments the handler gives TranslationOptions.
RouteKeywords ==
    {"format_type", "enable_refinement", "refinement_model", "preferred_provider"}

\* The generated __init__ of a dataclass raises TypeError for a keyword that
\* is no field.
NewTranslationOptions(keywords) == [raised |-> ~(keywords \subseteq TranslationOptionsFields)]

Texts == {<<"H", "i">>, <<" ", "H", "i", " ">>, <<"h", "i">>}
Langs == {<<"e", "n">>, <<"E", "N">>, <<"e", "n", " ">>, <<"z", "h">>}
Formats == {Null, Str(Plain), Str(<<"H", "T", "M", "L">>)}

\* What a caller may send: source_lang and preferred_provider are Optional
\* in TranslationRequest, text and target_lang are required.
Requests ==
    [entry : {"route", "direct"}, text : {Str(t) : t \in Texts},
     source_lang : {Null} \cup {Str(l) : l \in Langs},
     target_lang : {Str(l) : l \in Langs}, format : Formats,
     enable_refinement : Bools,
     preferred_provider : {Null, Str(<<"d", "e", "e", "p", "l">>)}]

InitRequest ==
    /\ cache = [k \in Keys |-> NoRow]
    /\ usage = [p \in UsageProviders |-> NoUsage]
    /\ quota = [w \in Wf |-> {}]
    /\ now = 0
    /\ InitRequests
    /\ watch = {}
    /\ InitCalls
    /\ InitAsked
    /\ InitLife
    /\ InitStore
    /\ InitKeys
    /\ request \in Requests
    /\ outcome = NoOutcome

\* POST /translate: options = TranslationOptions(format_type=...,
\* enable_refinement=..., refinement_model=..., preferred_provider=...), then
\* workflow.translate(...).  No handler catches what is raised here.
PostTranslate ==
    /\ request.entry = "route"
    /\ outcome.state = "pending"
    /\ outcome' = [outcome EXCEPT !.state =
                      IF NewTranslationOptions(RouteKeywords).raised
                      THEN "unhandled" ELSE "called"]
    /\ UNCHANGED <<usage, request, pipelineVars, callVars, ctlVars, keyVars,
                   sweepVars, listVars, lifeVars>>

\* A caller of TranslationWorkflow.translate with options of its own.
CallTranslate ==
    /\ request.entry = "direct"
    /\ outcome.state = "pending"
    /\ outcome' = [outcome EXCEPT !.state = "called"]
    /\ UNCHANGED <<usage, request, pipelineVars, callVars, ctlVars, keyVars,
                   sweepVars, listVars, lifeVars>>

\* translate(): cache_key = generate_cache_key(text, source_lang,
\* target_lang, options.format_type), outside any try.
Fingerprint ==
    /\ outcome.state = "called"
    /\ LET k == GenerateCacheKey(request.text, request.source_lang,
                                 request.target_lang, request.format)
       IN outcome' = IF k.raised
                     THEN [state |-> IF request.entry = "route"
                                     THEN "unhandled" ELSE "raised",
                           key |-> <<>>]
                     ELSE [state |-> "keyed", key |-> k.key]
    /\ UNCHANGED <<usage, request, pipelineVars, callVars, ctlVars, keyVars,
                   sweepVars, listVars, lifeVars>>

NextRequest == PostTranslate \/ CallTranslate \/ Fingerprint

SpecRequest == InitRequest /\ [][NextRequest]_vars

(***************************************************************************)
(* generate_cache_key on its own: two calls with arguments of the caller's  *)
(* choosing, each returning its key.                                        *)
(***************************************************************************)
KeyTexts == {<<"H", "i">>, <<" ", "H", "i", " ">>, <<"H", " ", "i">>}
KeySources ==
    {<<"e", "n">>, <<"E", "N", " ">>, <<"z", "h", "_", "T", "W">>,
     <<"z", "h", "-", "T", "W">>, <<"a", "a">>, <<"a", "a", "|", "b", "b">>}
KeyTargets ==
    {<<"e", "n">>, <<"E", "N">>, <<"c", "c">>, <<"b", "b", "|", "c", "c">>}
KeyFormats == {Null, Str(Plain), Str(<<"H", "T", "M", "L">>)}

KeyCalls ==
    [text : {Str(t) : t \in KeyTexts}, source_lang : {Str(l) : l \in KeySources},
     target_lang : {Str(l) : l \in KeyTargets}, format : KeyFormats]

InitKeyPair ==
    /\ cache = [k \in Keys |-> NoRow]
    /\ usage = [p \in UsageProviders |-> NoUsage]
    /\ quota = [w \in Wf |-> {}]
    /\ now = 0
    /\ InitRequests
    /\ watch = {}
    /\ InitCalls
    /\ InitAsked
    /\ InitLife
    /\ InitStore
    /\ request = NoRequest
    /\ outcome = NoOutcome
    /\ pair \in KeyCalls \X KeyCalls
    /\ digest = <<NoOutcome, NoOutcome>>

\* generate_cache_key(text, source_lang, target_lang, format_type) returns.
KeyCall(i) ==
    /\ digest[i].state = "pending"
    /\ LET k == GenerateCacheKey(pair[i].text, pair[i].source_lang,
                                 pair[i].target_lang, pair[i].format)
       IN digest' = [digest EXCEPT ![i] =
                       IF k.raised THEN [state |-> "raised", key |-> <<>>]
                       ELSE [state |-> "keyed", key |-> k.key]]
    /\ UNCHANGED <<usage, request, outcome, pair, pipelineVars, callVars, ctlVars,
                   sweepVars, listVars, lifeVars>>

NextKeys == \E i \in {1, 2} : KeyCall(i)

SpecKeys == InitKeyPair /\ [][NextKeys]_vars

(***************************************************************************)
(* The cost controller on its own: callers set and reset quota flags,       *)
(* record usage and ask whether a quota or a budget is exceeded.            *)
(***************************************************************************)
MaxRecords == 3      \* record_usage calls made on the controller

\* The usage a record_usage call may report.
RecordDeltas ==
    {NoDelta,
     [char_count |-> 1, token_input |-> 0, token_output |-> 0,
      cost_estimated |-> 0],
     [char_count |-> 499999, token_input |-> 0, token_output |-> 0,
      cost_estimated |-> 0]}

\* The names record_usage is called with.
RecordNames == {"Google", "deepl"}

InitController ==
    /\ cache = [k \in Keys |-> NoRow]
    /\ usage = [p \in UsageProviders |-> NoUsage]
    /\ quota = [w \in Wf |-> {}]
    /\ now = 0
    /\ InitRequests
    /\ watch = {}
    /\ InitCalls
    /\ InitEntry
    /\ InitAsked
    /\ InitLife
    /\ InitStore

\* cost_controller.set_quota_exceeded(p)
CtlSetQuota(p) ==
    /\ quota' = [quota EXCEPT ![1] = SetQuotaExceeded(@, p)]
    /\ lastOp' = [lastOp EXCEPT ![Lower(p)] = "set"]
    /\ answer' = NoAnswer
    /\ UNCHANGED <<cache, usage, requestVars, histVars, now, callVars, entryVars,
                   sweepVars, listVars, lifeVars, totalAsk, locked>>

\* cost_controller.reset_quota_exceeded(p)
CtlResetQuota(p) ==
    /\ quota' = [quota EXCEPT ![1] = ResetQuotaExceeded(@, p)]
    /\ lastOp' = [lastOp EXCEPT ![Lower(p)] = "reset"]
    /\ answer' = NoAnswer
    /\ UNCHANGED <<cache, usage, requestVars, histVars, now, callVars, entryVars,
                   sweepVars, listVars, lifeVars, totalAsk, locked>>

\* cost_controller.record_usage(p, ...): increment_usage_stats(p.lower(), ...)
CtlRecordUsage(p, d) ==
    /\ UsageTotal(usage) < MaxRecords
    /\ usage' = IncrementUsageStats(usage, Lower(p), d)
    /\ answer' = NoAnswer
    /\ UNCHANGED <<cache, quota, requestVars, histVars, now, callVars,
                   entryVars, sweepVars, listVars, lifeVars, lastOp, totalAsk, locked>>

\* is_quota_exceeded(p) and is_budget_exceeded(p)
CtlAsk(p) ==
    /\ answer' = [asked |-> p, quota |-> IsQuotaExceeded(quota[1], p),
                  budget |-> IsBudgetExceeded(usage, p)]
    /\ UNCHANGED <<cache, usage, quota, requestVars, histVars, now, callVars,
                   entryVars, sweepVars, listVars, lifeVars, lastOp, totalAsk, locked>>

NextController ==
    \/ \E p \in ProviderSpellings :
          CtlSetQuota(p) \/ CtlResetQuota(p) \/ CtlAsk(p)
    \/ \E p \in RecordNames, d \in RecordDeltas : CtlRecordUsage(p, d)

SpecController == InitController /\ [][NextController]_vars

(***************************************************************************)
(* The OpenAI budget: usage of openai_trans and openai_refine is recorded   *)
(* while is_budget_exceeded and is_openai_budget_exceeded are asked.  The   *)
(* combined check reads the two rows one after the other, and a record      *)
(* may be committed between the two reads.                                  *)
(***************************************************************************)
\* The usage an OpenAI call may report.
CostDeltas ==
    {NoDelta,
     [char_count |-> 0, token_input |-> 1, token_output |-> 1,
      cost_estimated |-> 2],
     [char_count |-> 0, token_input |-> 1, token_output |-> 1,
      cost_estimated |-> 3]}

OpenAINames == {"openai_trans", "openai_refine"}

\* get_total_openai_cost: total = 0.0, then the first get_daily_usage.
CtlTotalBegin ==
    /\ totalAsk.at # "reading"
    /\ totalAsk' = [at |-> "reading",
                    total |-> GetDailyUsage(usage, "openai_trans").cost_estimated,
                    atStart |-> usage["openai_trans"].cost_estimated
                              + usage["openai_refine"].cost_estimated,
                    atEnd |-> 0, exceeded |-> FALSE]
    /\ UNCHANGED <<cache, usage, quota, requestVars, histVars, now, callVars,
                   entryVars, sweepVars, listVars, lifeVars, lastOp, answer, locked>>

\* The second get_daily_usage, and the comparison of is_openai_budget_exceeded.
CtlTotalEnd ==
    /\ totalAsk.at = "reading"
    /\ LET total == totalAsk.total
                   + GetDailyUsage(usage, "openai_refine").cost_estimated IN
       totalAsk' = [totalAsk EXCEPT
                      !.at = "done", !.total = total,
                      !.atEnd = usage["openai_trans"].cost_estimated
                              + usage["openai_refine"].cost_estimated,
                      !.exceeded = total >= DailyBudgetOpenAI]
    /\ UNCHANGED <<cache, usage, quota, requestVars, histVars, now, callVars,
                   entryVars, sweepVars, listVars, lifeVars, lastOp, answer, locked>>

NextBudget ==
    \/ \E p \in OpenAINames, d \in CostDeltas : CtlRecordUsage(p, d)
    \/ \E p \in OpenAINames : CtlAsk(p)
    \/ CtlTotalBegin
    \/ CtlTotalEnd

SpecBudget == InitController /\ [][NextBudget]_vars

(***************************************************************************)
(* The backend clients: lazy creation of the handle, is_available(), and    *)
(* the calls of the pipeline on them, by concurrent requests on one event   *)
(* loop (a method runs alone up to its first await).                        *)
(***************************************************************************)
MaxHandles == 2

\* What the steps outside the pipeline and the store's side calls leave alone.
baseVars == <<pipelineVars, usage, callVars, entryVars, ctlVars, sweepVars, listVars>>

\* self._client = Constructor(...): a new handle object.
Construct(cl) == [cl EXCEPT !.handle = cl.built + 1, !.built = cl.built + 1]

Raise(cl) == [client |-> [cl EXCEPT !.failed = TRUE], raised |-> TRUE]

Give(cl) == [client |-> cl, raised |-> FALSE]

\* Faulty variant: a handle is constructed on every use.
GetHandleAlwaysNew(cl, has_key) ==
    IF ~has_key THEN Raise(cl) ELSE Give(Construct(cl))

\* DeepLClient._get_translator and OpenAIClient._get_client.
GetHandle(cl, has_key) ==
    IF cl.handle = 0
    THEN IF ~has_key THEN Raise(cl) ELSE Give(Construct(cl))
    ELSE Give(cl)

\* GoogleTranslateClient._get_client: the handle is stored, then the project
\* id is looked for and its absence raises.
GoogleGetClient(cl, cf) ==
    IF cl.handle = 0
    THEN IF ~cf.ctor THEN Raise(cl)
         ELSE IF ~cf.project THEN Raise(Construct(cl))
         ELSE Give(Construct(cl))
    ELSE Give(cl)

GetClient(b, cl, cf) ==
    IF b = "google" THEN GoogleGetClient(cl, cf) ELSE GetHandle(cl, cf.key[b])

\* GoogleTranslateClient.is_available.
GoogleIsAvailable(cl, cf) ==
    IF ~cf.creds
    THEN [client |-> cl, answer |-> FALSE]
    ELSE LET g == GoogleGetClient(cl, cf)
         IN [client |-> g.client, answer |-> ~g.raised]

Answers(cl, a) == [cl EXCEPT !.last = IF a THEN "yes" ELSE "no"]

Uses(cl) == [cl EXCEPT !.used = @ \cup {cl.handle}]

\* is_available() of backend b is called, by the health route (tiered FALSE)
\* or by a tier of the pipeline (tiered TRUE). Google answers without an
\* await; DeepL and OpenAI answer False without a key and otherwise take the
\* handle and ask the service.
ClientAsk(c, b, tiered) ==
    /\ task[c].at = "idle"
    /\ client[b].built < MaxHandles
    /\ IF b = "google"
       THEN LET g == GoogleIsAvailable(client[b], conf) IN
            /\ client' = [client EXCEPT ![b] = Answers(g.client, g.answer)]
            /\ task' = [task EXCEPT ![c] =
                           IF g.answer /\ tiered
                           THEN [NoTask EXCEPT !.at = "available", !.backend = b]
                           ELSE NoTask]
       ELSE IF ~conf.key[b]
            THEN /\ client' = [client EXCEPT ![b] = Answers(@, FALSE)]
                 /\ task' = [task EXCEPT ![c] = NoTask]
            ELSE LET g == GetHandle(client[b], conf.key[b]) IN
                 /\ client' = [client EXCEPT ![b] = Uses(g.client)]
                 /\ task' = [task EXCEPT ![c] =
                                [at |-> "checking", backend |-> b, tiered |-> tiered,
                                 handle |-> g.client.handle]]
    /\ UNCHANGED <<conf, baseVars, dbVars, fetchVars, summaryVars, upsertVars>>

\* The service answers the check of DeepL or OpenAI, or the check raises.
ClientChecked(c) ==
    /\ task[c].at = "checking"
    /\ \E ok \in Bools :
        /\ client' = [client EXCEPT ![task[c].backend] = Answers(@, ok)]
        /\ task' = [task EXCEPT ![c] =
                       IF ok /\ task[c].tiered
                       THEN [NoTask EXCEPT !.at = "available", !.backend = task[c].backend]
                       ELSE NoTask]
    /\ UNCHANGED <<conf, baseVars, dbVars, fetchVars, summaryVars, upsertVars>>

\* translate() of the tier whose is_available() answered True: the handle is
\* taken and the request is sent.
ClientTranslate(c) ==
    /\ task[c].at = "available"
    /\ client[task[c].backend].built < MaxHandles
    /\ LET b == task[c].backend
           g == GetClient(b, client[b], conf)
       IN IF g.raised
          THEN /\ client' = [client EXCEPT ![b] = g.client]
               /\ task' = [task EXCEPT ![c] = NoTask]
          ELSE /\ client' = [client EXCEPT ![b] = Uses(g.client)]
               /\ task' = [task EXCEPT ![c] =
                              [at |-> "calling", backend |-> b, tiered |-> TRUE,
                               handle |-> g.client.handle]]
    /\ UNCHANGED <<conf, baseVars, dbVars, fetchVars, summaryVars, upsertVars>>

\* openai.refine(), which the pipeline calls without is_available().
ClientRefine(c) ==
    /\ task[c].at = "idle"
    /\ client["openai"].built < MaxHandles
    /\ LET g == GetClient("openai", client["openai"], conf)
       IN IF g.raised
          THEN /\ client' = [client EXCEPT !["openai"] = g.client]
               /\ task' = [task EXCEPT ![c] = NoTask]
          ELSE /\ client' = [client EXCEPT !["openai"] = Uses(g.client)]
               /\ task' = [task EXCEPT ![c] =
                              [at |-> "calling", backend |-> "openai", tiered |-> FALSE,
                               handle |-> g.client.handle]]
    /\ UNCHANGED <<conf, baseVars, dbVars, fetchVars, summaryVars, upsertVars>>

\* The service answers the request (or the request fails).
ClientReturn(c) ==
    /\ task[c].at = "calling"
    /\ task' = [task EXCEPT ![c] = NoTask]
    /\ UNCHANGED <<client, conf, baseVars, dbVars, fetchVars, summaryVars, upsertVars>>

\* No request is in the pipeline and the store is empty.
InitBase ==
    /\ cache = [k \in Keys |-> NoRow]
    /\ usage = [p \in UsageProviders |-> NoUsage]
    /\ quota = [w \in Wf |-> {}]
    /\ now = 0
    /\ watch = {}
    /\ InitRequests
    /\ InitCalls
    /\ InitEntry
    /\ InitAsked
    /\ InitStore

InitClient ==
    /\ InitBase
    /\ InitUpserts
    /\ InitDb
    /\ InitFetch
    /\ InitSummary
    /\ client = [b \in Tiers |-> NoClient]
    /\ conf \in Configurations
    /\ task = [c \in ClientCallers |-> NoTask]

NextClient ==
    \E c \in ClientCallers :
        \/ \E b \in Tiers, tiered \in Bools : ClientAsk(c, b, tiered)
        \/ ClientChecked(c)
        \/ ClientTranslate(c)
        \/ ClientRefine(c)
        \/ ClientReturn(c)

SpecClient == InitClient /\ [][NextClient]_vars

(***************************************************************************)
(* The database manager: the singleton of get_instance(), initialize(), and *)
(* the connection scope of get_connection() that every store operation     *)
(* runs in. Callers are coroutines on one event loop.                       *)
(***************************************************************************)
dbRest == <<baseVars, clientVars, fetchVars, summaryVars, upsertVars>>

\* Faulty variant: the connection is left open when its scope exits.
CloseSkipped(m, how) == [m EXCEPT !.exits = @ \cup {how}]

\* finally: await conn.close(), on the way out of the scope named by how.
Close(m, how) == [m EXCEPT !.open = @ - 1, !.exits = @ \cup {how}]

\* conn = await aiosqlite.connect(self.db_path)
Connect(m) == [m EXCEPT !.open = @ + 1]

\* async with cls._lock: leaving the block, by return or by exception.
Release(m) == [m EXCEPT !.lock = 0]

\* get_instance(): the lock is taken; an existing instance is returned at
\* once, otherwise the instance is stored and initialize() is entered.
DbGetInstance(c) ==
    /\ db[c].at = "idle"
    /\ mgr.lock = 0
    /\ IF mgr.instance = 0
       THEN /\ mgr' = [mgr EXCEPT !.instance = 1, !.lock = c]
            /\ db' = [db EXCEPT ![c].at = "initialize"]
       ELSE /\ mgr' = mgr
            /\ db' = [db EXCEPT ![c].at = "ready", ![c].inst = mgr.instance,
                                ![c].sound = mgr.initialized]
    /\ UNCHANGED dbRest

\* initialize(): returns at once when already initialized; otherwise creates
\* the directory and opens the connection, or raises out of get_instance().
DbInitialize(c) ==
    /\ db[c].at = "initialize"
    /\ IF mgr.initialized
       THEN /\ mgr' = Release(mgr)
            /\ db' = [db EXCEPT ![c].at = "ready", ![c].inst = mgr.instance,
                                ![c].sound = TRUE]
       ELSE \E ok \in Bools :
            IF ok
            THEN /\ mgr' = Connect([mgr EXCEPT !.runs = @ + 1])
                 /\ db' = [db EXCEPT ![c].at = "init_pragmas", ![c].pragmas = FALSE]
            ELSE /\ mgr' = Release([mgr EXCEPT !.runs = @ + 1])
                 /\ db' = [db EXCEPT ![c].at = "idle", ![c].failed = TRUE]
    /\ UNCHANGED dbRest

\* The pragmas of get_connection() inside initialize().
DbInitPragmas(c) ==
    /\ db[c].at = "init_pragmas"
    /\ \E ok \in Bools :
        IF ok
        THEN /\ mgr' = mgr
             /\ db' = [db EXCEPT ![c].at = "init_body", ![c].pragmas = TRUE]
        ELSE /\ mgr' = Release(Close(mgr, "pragmas_raised"))
             /\ db' = [db EXCEPT ![c].at = "idle", ![c].failed = TRUE]
    /\ UNCHANGED dbRest

\* The body of initialize(): pragmas again and the tables; then the scope
\* exits, _initialized is set and get_instance() returns the instance.
DbInitBody(c) ==
    /\ db[c].at = "init_body"
    /\ \E ok \in Bools :
        IF ok
        THEN /\ mgr' = Release([Close(mgr, "return") EXCEPT !.initialized = TRUE])
             /\ db' = [db EXCEPT ![c].at = "ready", ![c].inst = mgr.instance,
                                 ![c].sound = TRUE]
        ELSE /\ mgr' = Release(Close(mgr, "body_raised"))
             /\ db' = [db EXCEPT ![c].at = "idle", ![c].failed = TRUE]
    /\ UNCHANGED dbRest

\* A store operation enters "async with self.db.get_connection() as conn".
DbOpen(c) ==
    /\ db[c].at = "ready"
    /\ \E ok \in Bools :
        IF ok
        THEN /\ mgr' = Connect(mgr)
             /\ db' = [db EXCEPT ![c].at = "op_pragmas", ![c].pragmas = FALSE]
        ELSE UNCHANGED <<mgr, db>>
    /\ UNCHANGED dbRest

\* _apply_pragmas(conn) before the yield.
DbPragmas(c) ==
    /\ db[c].at = "op_pragmas"
    /\ \E ok \in Bools :
        IF ok
        THEN /\ mgr' = mgr
             /\ db' = [db EXCEPT ![c].at = "op_body", ![c].pragmas = TRUE]
        ELSE /\ mgr' = Close(mgr, "pragmas_raised")
             /\ db' = [db EXCEPT ![c].at = "ready"]
    /\ UNCHANGED dbRest

\* The statements of the operation run, or one of them raises; the scope
\* exits either way.
DbBody(c) ==
    /\ db[c].at = "op_body"
    /\ \E ok \in Bools :
        mgr' = Close(mgr, IF ok THEN "return" ELSE "body_raised")
    /\ db' = [db EXCEPT ![c].at = "ready"]
    /\ UNCHANGED dbRest

InitManager ==
    /\ InitBase
    /\ InitUpserts
    /\ InitClients
    /\ InitFetch
    /\ InitSummary
    /\ InitDb

NextManager ==
    \E c \in ClientCallers :
        \/ DbGetInstance(c)
        \/ DbInitialize(c)
        \/ DbInitPragmas(c)
        \/ DbInitBody(c)
        \/ DbOpen(c)
        \/ DbPragmas(c)
        \/ DbBody(c)

SpecManager == InitManager /\ [][NextManager]_vars

(***************************************************************************)
(* upsert_translation with every column of the row, called by concurrent    *)
(* requests whose inputs have the same fingerprint.                         *)
(***************************************************************************)
upsertRest == <<cache, usage, quota, requestVars, histVars, callVars, entryVars,
                ctlVars, sweepVars, listVars, clientVars, dbVars, fetchVars,
                summaryVars>>

\* Texts and language spellings with one fingerprint: generate_cache_key
\* strips the text and lowercases the language codes.
SameKeyTexts == {"Hello", " Hello "}
SameKeyLangs == {"en", "EN"}

\* len(original_text)
CharCount(text) == IF text = "Hello" THEN 5 ELSE 7

\* What a request ends with: a tier's draft, or its refinement.
Finals ==
    {[translated_text |-> DraftText(t), provider |-> t, is_refined |-> FALSE,
      refinement_model |-> ""] : t \in Tiers}
    \cup {[translated_text |-> RefinedText(DraftText("deepl")), provider |-> "deepl",
           is_refined |-> TRUE, refinement_model |-> RefinementModel]}

\* Faulty variant: INSERT OR REPLACE, the stored row gives way to the new one.
UpsertRowReplaces(rows, k, w, t) ==
    {x \in rows : x.cache_key # k}
    \cup {[cache_key |-> k, source_lang |-> w.source_lang,
           original_text |-> w.original_text,
           translated_text |-> w.translated_text, provider |-> w.provider,
           is_refined |-> w.is_refined, refinement_model |-> w.refinement_model,
           char_count |-> CharCount(w.original_text),
           created_at |-> t, last_accessed_at |-> t]}

\* INSERT INTO translations (...) VALUES (...) ON CONFLICT(cache_key) DO
\* UPDATE SET translated_text, provider, is_refined, refinement_model =
\* excluded.*, last_accessed_at = CURRENT_TIMESTAMP.
UpsertRow(rows, k, w, t) ==
    IF \E x \in rows : x.cache_key = k
    THEN {IF x.cache_key = k
          THEN [x EXCEPT !.translated_text = w.translated_text,
                         !.provider = w.provider,
                         !.is_refined = w.is_refined,
                         !.refinement_model = w.refinement_model,
                         !.last_accessed_at = t]
          ELSE x : x \in rows}
    ELSE rows \cup {[cache_key |-> k, source_lang |-> w.source_lang,
                     original_text |-> w.original_text,
                     translated_text |-> w.translated_text, provider |-> w.provider,
                     is_refined |-> w.is_refined,
                     refinement_model |-> w.refinement_model,
                     char_count |-> CharCount(w.original_text),
                     created_at |-> t, last_accessed_at |-> t]}

\* A request for the fingerprint missed the cache and got its final values.
UpsertReady(i) ==
    /\ writers[i].at = "idle"
    /\ \E text \in SameKeyTexts, lang \in SameKeyLangs, f \in Finals :
        writers' = [writers EXCEPT ![i] =
                      [at |-> "ready", source_lang |-> lang, original_text |-> text,
                       translated_text |-> f.translated_text, provider |-> f.provider,
                       is_refined |-> f.is_refined,
                       refinement_model |-> f.refinement_model,
                       inserted |-> FALSE, time |-> 0]]
    /\ UNCHANGED <<stored, now, upsertRest>>

\* await self.dao.upsert_translation(...): the statement and its commit.
UpsertCommit(i) ==
    /\ writers[i].at = "ready"
    /\ stored' = UpsertRow(stored, "k1", writers[i], now)
    /\ writers' = [writers EXCEPT ![i].at = "done",
                                  ![i].inserted = ~\E x \in stored : x.cache_key = "k1",
                                  ![i].time = now]
    /\ UNCHANGED <<now, upsertRest>>

\* CURRENT_TIMESTAMP moves on.
UpsertTick ==
    /\ now < MaxNow
    /\ now' = now + 1
    /\ UNCHANGED <<stored, writers, upsertRest>>

InitUpsert ==
    /\ InitBase
    /\ InitClients
    /\ InitDb
    /\ InitFetch
    /\ InitSummary
    /\ InitUpserts

NextUpsert ==
    \/ UpsertTick
    \/ \E i \in ClientCallers : UpsertReady(i) \/ UpsertCommit(i)

SpecUpsert == InitUpsert /\ [][NextUpsert]_vars

(***************************************************************************)
(* CostController.get_daily_summary over the usage rows of two days.        *)
(***************************************************************************)
summaryRest == <<pipelineVars, callVars, entryVars, ctlVars, sweepVars, listVars,
                 clientVars, dbVars, fetchVars, upsertVars>>

Dates == {"today", "yesterday"}

UsedRow(chars, cost) ==
    [request_count |-> 1, char_count |-> chars, token_input |-> 0,
     token_output |-> 0, cost_estimated |-> cost]

\* The rows a day's table may hold per provider (NoUsage: no row).
DayTables ==
    {[p \in UsageProviders |->
        CASE p = "deepl" -> d
          [] p = "google" -> g
          [] p = "openai_trans" -> t
          [] p = "openai_refine" -> r] :
       d \in {NoUsage, UsedRow(1, 0)},
       g \in {NoUsage, UsedRow(TextChars, GoogleCost(TextChars))},
       t \in {NoUsage, UsedRow(0, 2), UsedRow(0, 3)},
       r \in {NoUsage, UsedRow(0, 3)}}

\* SELECT * FROM daily_usage_stats WHERE date = ?
GetAllDailyUsage(table) == {p \in DOMAIN table : table[p].request_count > 0}

RECURSIVE SumOver(_, _, _)
SumOver(table, ps, field) ==
    IF ps = {} THEN 0
    ELSE LET p == CHOOSE q \in ps : TRUE
         IN table[p][field] + SumOver(table, ps \ {p}, field)

\* get_daily_summary(target_date): the counters and totals of the rows of
\* target_date; the budget flags from is_budget_exceeded("google") and
\* is_openai_budget_exceeded(), which read the rows of date.today().
GetDailySummary(target_date, table, today) ==
    [asked |-> TRUE, date |-> target_date,
     providers |-> GetAllDailyUsage(table), rows |-> table,
     total_cost |-> SumOver(table, GetAllDailyUsage(table), "cost_estimated"),
     total_requests |-> SumOver(table, GetAllDailyUsage(table), "request_count"),
     budgets |-> [google |-> [limit |-> DailyBudgetGoogle,
                              exceeded |-> IsBudgetExceeded(today, "google")],
                  openai |-> [limit |-> DailyBudgetOpenAI,
                              exceeded |-> IsOpenAIBudgetExceeded(today)]]]

\* The rows stored for a date.
TableOf(d) == IF d = "today" THEN usage ELSE past

\* GET /stats/daily?date=...: one get_daily_summary call.
SummaryAsk(d) ==
    /\ summary' = GetDailySummary(d, TableOf(d), usage)
    /\ UNCHANGED <<usage, past, summaryRest>>

\* The rows of today and of yesterday are drawn independently.
InitDays ==
    /\ cache = [k \in Keys |-> NoRow]
    /\ usage \in DayTables
    /\ quota = [w \in Wf |-> {}]
    /\ now = 0
    /\ watch = {}
    /\ InitRequests
    /\ InitCalls
    /\ InitEntry
    /\ InitAsked
    /\ InitStore
    /\ InitUpserts
    /\ InitClients
    /\ InitDb
    /\ InitFetch
    /\ summary = NoSummary
    /\ past \in DayTables

NextSummary == \E d \in Dates : SummaryAsk(d)

SpecSummary == InitDays /\ [][NextSummary]_vars

(***************************************************************************)
(* ExternalDataService._fetch_with_retry: the attempts of one call and the  *)
(* waits between them.                                                      *)
(***************************************************************************)
Retries == 5
BackoffFactor == 2
FirstDelay == 1

fetchRest == <<baseVars, clientVars, dbVars, summaryVars, upsertVars>>

\* What an attempt can meet: status 200 with a payload that decodes, status
\* 200 whose json() or text() raises, another status, or an exception of the
\* session or the request.
AttemptOutcomes == {"ok", "undecodable", "status", "raises"}

\* Faulty variant: the delay stays what it was.
NextDelayConstant(d) == d

\* delay *= backoff_factor
NextDelay(d) == d * BackoffFactor

\* if attempt < retries - 1: the loop sleeps and goes round again.
SleepsAfter(attempt) == attempt < Retries - 1

\* The call starts: delay = 1.0 and the first pass of "for attempt in
\* range(retries)".
FetchBegin ==
    /\ fetch.at \in {"idle", "done"}
    /\ \E t \in {"json", "text"} :
        fetch' = [NoFetch EXCEPT !.at = "attempt", !.response_type = t,
                                 !.delay = FirstDelay]
    /\ UNCHANGED fetchRest

\* One attempt: a decoded 200 response is returned; anything else is logged
\* or ignored, and the loop sleeps or, after the last pass, returns None.
FetchAttempt ==
    /\ fetch.at = "attempt"
    /\ \E o \in AttemptOutcomes :
        fetch' = [fetch EXCEPT
                    !.statuses = Append(@, o),
                    !.at = IF o = "ok" THEN "done"
                           ELSE IF SleepsAfter(fetch.attempt) THEN "sleep"
                           ELSE "done",
                    !.returned = IF o = "ok" THEN "payload"
                                 ELSE IF SleepsAfter(fetch.attempt) THEN "nothing"
                                 ELSE "none"]
    /\ UNCHANGED fetchRest

\* await asyncio.sleep(delay); delay *= backoff_factor; the next pass.
FetchSleep ==
    /\ fetch.at = "sleep"
    /\ fetch' = [fetch EXCEPT !.waits = Append(@, fetch.delay),
                              !.delay = NextDelay(@),
                              !.attempt = @ + 1,
                              !.at = "attempt"]
    /\ UNCHANGED fetchRest

InitFetcher ==
    /\ InitBase
    /\ InitUpserts
    /\ InitClients
    /\ InitDb
    /\ InitSummary
    /\ InitFetch

NextFetch == FetchBegin \/ FetchAttempt \/ FetchSleep

\* The request of an attempt ends (aiohttp's default total timeout) and
\* asyncio.sleep returns.
SpecFetch ==
    InitFetcher /\ [][NextFetch]_vars /\ WF_vars(FetchAttempt) /\ WF_vars(FetchSleep)

(***************************************************************************)
(* The claims.                                                              *)
(***************************************************************************)
CallsOf(r, t) == {c \in calls[r] : c[1] = t}

\* The calls a request has made to a tier of the chain (refine is no tier).
TierCalls(r, t) == calls[r] \cap {<<t, "is_available">>, <<t, "translate">>}

Returned(r) == pc[r] = "done" /\ resp[r].returned

\* The usage row a response's provider is counted under.
UsageRowOf(provider) == IF provider = "openai" THEN "openai_trans" ELSE provider

Count(seq, x) == Cardinality({i \in 1..Len(seq) : seq[i] = x})

\* C1: a request whose lookup finds a live row, with enable_refinement false
\* or the row refined, invokes no backend method, touches the row exactly
\* once and answers success with the cached text, provider "cache",
\* is_cached true and the row's is_refined.
C1_CacheHitServed ==
    \A r \in Observed :
        hit[r] =>
            /\ calls[r] = {}
            /\ pc[r] \in {"touch", "done"}
            /\ pc[r] = "touch" => touched[r] = 0
            /\ pc[r] = "done" =>
                  /\ touched[r] = 1
                  /\ wrote[r] = 0
                  /\ resp[r] = [returned |-> TRUE, success |-> TRUE,
                                text |-> cached[r].translated_text,
                                provider |-> "cache",
                                is_refined |-> cached[r].is_refined,
                                is_cached |-> TRUE, error |-> "",
                                original_text |-> ""]
                  /\ cached[r].present

\* A request that asked for refinement was served a refined row.
C1_Witness ==
    \E r \in Observed :
        /\ Returned(r) /\ hit[r] /\ opts[r]
        /\ resp[r].is_cached /\ resp[r].is_refined /\ touched[r] = 1

\* The step in which request r writes its result to the cache and answers.
UpsertStep(r) == pc[r] = "upsert" /\ pc'[r] = "done"

\* A request that started when the latest write under its fingerprint was
\* made by a request with the same options is served that write's text from
\* the cache, having called no backend.
ServedLastWrite(r) ==
    /\ calls[r] = {}
    /\ pc[r] \in {"touch", "done"}
    /\ pc[r] = "done" =>
          /\ resp[r].success /\ resp[r].is_cached
          /\ resp[r].text = prev[r].text

\* C2 as stated: a request that missed and succeeded leaves a row with the
\* returned text, and the next identical request is served that text from
\* the cache, whatever its options.
C2_Original ==
    \A r \in Observed : prev[r].known => ServedLastWrite(r)

\* C2 amended: a request that missed and succeeded leaves a row with the
\* returned text under its fingerprint; the next identical request, no other
\* write to the row in between, is served that text from the cache without a
\* backend call when enable_refinement is false or the text returned was
\* refined.
C2_MissThenHit ==
    [][\A r \in Observed :
          /\ UpsertStep(r) =>
                /\ resp'[r].success /\ ~resp'[r].is_cached
                /\ cache'[key[r]].present
                /\ cache'[key[r]].translated_text = resp'[r].text
                /\ cache'[key[r]].is_refined = resp'[r].is_refined
          /\ prev'[r].known /\ (~opts'[r] \/ prev'[r].is_refined) =>
                ServedLastWrite(r)']_vars

\* A request that asked for refinement was served the refined text that the
\* identical request before it had returned.
C2_Witness ==
    \E r \in Observed :
        /\ Returned(r) /\ prev[r].known /\ prev[r].is_refined /\ opts[r]
        /\ resp[r].is_cached /\ resp[r].text = prev[r].text
        /\ touched[r] = 1

\* C3: the tiers are tried in the order deepl, openai, google: a tier is
\* called only after every earlier tier was left without a result in the same
\* request, and no tier is called after the one that answered.
C3_FixedTierOrder ==
    \A r \in Observed :
        /\ TierCalls(r, "openai") # {} => "deepl" \in passed[r]
        /\ TierCalls(r, "google") # {} => {"deepl", "openai"} \subseteq passed[r]
        /\ result[r].provider \notin passed[r]
        /\ result[r].provider = "deepl" =>
              /\ passed[r] = {}
              /\ TierCalls(r, "openai") = {}
              /\ TierCalls(r, "google") = {}
        /\ result[r].provider = "openai" =>
              passed[r] = {"deepl"} /\ TierCalls(r, "google") = {}
        /\ result[r].provider = "google" => passed[r] = {"deepl", "openai"}
        /\ \A t \in Tiers :
              <<t, "translate">> \in calls[r] => <<t, "is_available">> \in calls[r]

\* deepl and openai were tried and failed, google answered.
C3_Witness ==
    \E r \in Observed :
        /\ Returned(r) /\ resp[r].success /\ resp[r].provider = "google"
        /\ <<"deepl", "translate">> \in calls[r]
        /\ <<"openai", "translate">> \in calls[r]
        /\ cache[key[r]].present

\* C4: when every tier was skipped or failed the request answers
\* success = false with a message and the original text, has not tried to
\* refine and has written nothing to the cache.
C4_AllExhausted ==
    \A r \in Observed :
        passed[r] = Tiers =>
            /\ pc[r] = "done"
            /\ resp[r].returned /\ ~resp[r].success
            /\ resp[r].error # ""
            /\ resp[r].original_text = TextOf(key[r])
            /\ <<"openai", "refine">> \notin calls[r]
            /\ wrote[r] = 0 /\ touched[r] = 0

\* All three backends were called and failed.
C4_Witness ==
    \E r \in Observed :
        /\ Returned(r) /\ passed[r] = Tiers /\ ~resp[r].success
        /\ \A t \in Tiers : <<t, "translate">> \in calls[r]

\* C5: translate never raises to its caller.
C5_NeverRaises == \A r \in Req : pc[r] # "raised"

\* C6 as stated: a request that started with the deepl quota flag set calls
\* neither deepl.is_available nor deepl.translate.
C6_Original ==
    \A r \in Observed :
        atStart[r].quota \in {"set", "reset"} => CallsOf(r, "deepl") = {}

\* C6 amended: a request that started with the deepl quota flag set, the flag
\* not having been reset since, calls neither deepl.is_available nor
\* deepl.translate, and goes on to the openai and google tiers.
C6_QuotaSkipsDeepL ==
    \A r \in Observed :
        atStart[r].quota = "set" =>
            /\ CallsOf(r, "deepl") = {}
            /\ result[r].provider # "deepl"
            /\ Returned(r) /\ ~resp[r].is_cached =>
                  /\ "deepl" \in passed[r]
                  /\ resp[r].success => resp[r].provider \in {"openai", "google"}
                  /\ ~resp[r].success => passed[r] = Tiers

\* A request that started with the flag set was answered by openai.
C6_Witness ==
    \E r \in Observed :
        /\ atStart[r].quota = "set" /\ Returned(r)
        /\ resp[r].success /\ resp[r].provider = "openai"

\* C7 as stated: a request that started with the combined LLM budget exceeded
\* calls neither openai.translate nor openai.refine.
C7_Original ==
    \A r \in Observed :
        atStart[r].budget \in {"exceeded", "rolled"} =>
            calls[r] \cap {<<"openai", "translate">>, <<"openai", "refine">>} = {}

\* C7 amended: a request that started with the combined LLM budget exceeded,
\* the date not having changed since, calls no method of openai: the walk
\* goes from deepl to google and the draft is returned unrefined.
C7_BudgetSkipsOpenAI ==
    \A r \in Observed :
        atStart[r].budget = "exceeded" =>
            /\ CallsOf(r, "openai") = {}
            /\ result[r].provider # "openai"
            /\ ~result[r].is_refined
            /\ Returned(r) /\ resp[r].success /\ ~resp[r].is_cached =>
                  /\ resp[r].provider \in {"deepl", "google"}
                  /\ ~resp[r].is_refined

\* A request that asked for refinement with the budget exceeded was answered
\* by google, unrefined.
C7_Witness ==
    \E r \in Observed :
        /\ atStart[r].budget = "exceeded" /\ opts[r] /\ Returned(r)
        /\ resp[r].success /\ resp[r].provider = "google"
        /\ ~resp[r].is_refined

\* C8: once deepl.translate has raised QuotaExceeded, every request that
\* starts before reset_quota_exceeded("deepl") is called skips deepl without
\* calling it; exceptions of openai and google set no quota flag.
C8_TripSkipsDeepL ==
    /\ \A r \in Observed : atStart[r].tripped => CallsOf(r, "deepl") = {}
    /\ \A w \in Wf : quota[w] \subseteq {"deepl"}

\* C9: a cache row that is refined is not written back to unrefined.
C9_NeverDemoted ==
    [][\A k \in Keys :
          cache[k].present /\ cache[k].is_refined => cache'[k].is_refined]_vars

\* C10: a request that answers success has incremented exactly once the usage
\* row of the provider it answers with.
C10_OneUsagePerSuccess ==
    \A r \in Observed :
        Returned(r) /\ resp[r].success =>
            Count(recorded[r], UsageRowOf(resp[r].provider)) = 1

\* The increment_usage_stats calls that have committed.
Committed == {c \in Caller : inc[c].pc = "committed"}

RECURSIVE SumOf(_, _)
SumOf(S, counter) ==
    IF S = {} THEN 0
    ELSE LET c == CHOOSE x \in S : TRUE
         IN inc[c].delta[counter] + SumOf(S \ {c}, counter)

\* C11: whatever the interleaving of the concurrent increment_usage_stats
\* calls on one (date, provider), the row counts one request for every call
\* that has committed and each other counter has grown by the sum of those
\* calls' deltas, also when the row did not exist before the first call; the
\* rows of the other providers are not touched.
C11_NoLostUpdate ==
    /\ usage[target].request_count = base.request_count + Cardinality(Committed)
    /\ \A counter \in {"char_count", "token_input", "token_output",
                        "cost_estimated"} :
          usage[target][counter] = base[counter] + SumOf(Committed, counter)
    /\ \A p \in UsageProviders \ {target} : usage[p] = NoUsage

\* All the calls have committed on a row that did not exist before them, and
\* not all of them carried the same delta.
C11_Witness ==
    /\ base = NoUsage
    /\ Committed = Caller
    /\ usage[target].request_count = NumCallers
    /\ \E c, d \in Caller : inc[c].delta # inc[d].delta
    /\ usage[target].cost_estimated > 0

Refine == <<"openai", "refine">>

RefinementSucceeded(r) ==
    Refine \in calls[r] /\ Count(recorded[r], "openai_refine") = 1

\* C13: when refinement succeeds, the response carries the refined text
\* with is_refined true and the provider of the tier that made the draft;
\* the row written carries the same and the refining model's name; one
\* openai_refine usage record and one record of the draft's tier are written.
C13_RefinedResult ==
    [][\A r \in Observed :
          /\ RefinementSucceeded(r)' =>
                /\ result'[r].provider \in {"deepl", "google"}
                /\ result'[r].text = RefinedText(DraftText(result'[r].provider))
                /\ result'[r].is_refined
                /\ result'[r].refinement_model = RefinementModel
                /\ recorded'[r] = <<result'[r].provider, "openai_refine">>
                /\ pc'[r] \in {"upsert", "done"}
          /\ UpsertStep(r) /\ RefinementSucceeded(r) =>
                /\ resp'[r] = [NoResp EXCEPT
                                 !.returned = TRUE, !.success = TRUE,
                                 !.text = result[r].text,
                                 !.provider = result[r].provider,
                                 !.is_refined = TRUE]
                /\ cache'[key[r]].present
                /\ cache'[key[r]].translated_text = result[r].text
                /\ cache'[key[r]].provider = result[r].provider
                /\ cache'[key[r]].is_refined
                /\ cache'[key[r]].refinement_model = RefinementModel]_vars

\* The draft of deepl was refined, written and returned.
C13_Witness ==
    \E r \in Observed :
        /\ Returned(r) /\ RefinementSucceeded(r)
        /\ resp[r].provider = "deepl" /\ resp[r].text = "deepl_refined"
        /\ resp[r].is_refined /\ wrote[r] = 1
        /\ cache[key[r]].refinement_model = RefinementModel

\* C14: the first request with enable_refinement = true that starts after a
\* request with enable_refinement = true has answered with a successful
\* refinement, for the same fingerprint, is served that refined text from
\* the cache: its lookup ends on the cache-hit path, with the refined row.
C14_RefinedThenHit ==
    [][\A r \in Req :
          (/\ pc[r] = "idle" /\ pc'[r] # "idle"
           /\ opts'[r]
           /\ refinedDone[key'[r]].known)
          => /\ pc'[r] = "touch"
             /\ cached'[r].is_refined
             /\ cached'[r].translated_text = refinedDone[key'[r]].text]_vars

\* The step in which request r touches the row it was served.
TouchStep(r) == pc[r] = "touch" /\ pc'[r] = "done"

\* C16: every cache hit leaves the row's last_accessed_at strictly greater
\* than it was before the hit.
C16_TouchAdvances ==
    [][\A r \in Observed :
          TouchStep(r) =>
              cache'[key[r]].last_accessed_at > cache[key[r]].last_accessed_at]_vars

\* The request asked for refinement of a draft that is not the LLM tier's
\* and goes on without one: refine raised, or the budget check skipped it.
RefinementFailed(r) ==
    /\ opts[r]
    /\ result[r].provider \in {"deepl", "google"}
    /\ pc[r] \in {"upsert", "done"}
    /\ ~RefinementSucceeded(r)

\* C15: a refinement that raises or is skipped for the budget is not fatal:
\* the request goes on to the cache write, writes the unrefined row and
\* answers success with the draft, is_refined false and the tier as
\* provider; no openai_refine usage is recorded.
C15_RefinementNonFatal ==
    [][\A r \in Observed :
          /\ pc[r] \in {"refine_gate", "refine"} /\ pc'[r] # pc[r] =>
                pc'[r] \in {"refine", "upsert"}
          /\ RefinementFailed(r)' =>
                /\ result'[r].text = DraftText(result'[r].provider)
                /\ ~result'[r].is_refined
                /\ result'[r].refinement_model = ""
                /\ recorded'[r] = <<result'[r].provider>>
          /\ UpsertStep(r) /\ RefinementFailed(r) =>
                /\ resp'[r] = [NoResp EXCEPT
                                 !.returned = TRUE, !.success = TRUE,
                                 !.text = DraftText(result[r].provider),
                                 !.provider = result[r].provider]
                /\ cache'[key[r]].present
                /\ cache'[key[r]].translated_text = DraftText(result[r].provider)
                /\ cache'[key[r]].provider = result[r].provider
                /\ ~cache'[key[r]].is_refined
                /\ cache'[key[r]].refinement_model = ""]_vars

\* openai.refine raised and the request answered with the draft of deepl.
C15_Witness ==
    \E r \in Observed :
        /\ Returned(r) /\ opts[r] /\ Refine \in calls[r]
        /\ resp[r].success /\ ~resp[r].is_refined /\ ~resp[r].is_cached
        /\ resp[r].provider = "deepl" /\ resp[r].text = "deepl_draft"
        /\ wrote[r] = 1 /\ "openai_refine" \notin {recorded[r][i] : i \in 1..Len(recorded[r])}

\* C17: a translate call with no source language gets through the
\* fingerprint and raises nothing to its caller.
C17_NullSourceAccepted ==
    request.source_lang.null => outcome.state # "raised"

\* C18: the POST /translate handler builds the options, runs the pipeline
\* and answers with a structured response for every valid body; no request
\* ends in an error that nothing handles.
C18_RouteAnswers ==
    request.entry = "route" => outcome.state # "unhandled"

\* C19: is_quota_exceeded(p) is true exactly when the last set or reset
\* call on the case-folded name of p was a set, in whatever letter case the
\* calls and the question spell the name; it is false for every provider at
\* the start.
C19_QuotaFlagFollowsLastCall ==
    /\ \A p \in ProviderSpellings :
          IsQuotaExceeded(quota[1], p) <=> lastOp[Lower(p)] = "set"
    /\ answer.asked # "" => (answer.quota <=> lastOp[Lower(answer.asked)] = "set")

\* deepl was set under one spelling, reset under another and set again, while
\* google was only set and reset: the answer for "DeepL" is true.
C19_Witness ==
    /\ answer.asked = "DeepL" /\ answer.quota
    /\ quota[1] = {"deepl"}
    /\ lastOp = [p \in ProviderNames |->
                   CASE p = "deepl" -> "set" [] p = "google" -> "reset"
                     [] OTHER -> "none"]

\* The cost of the google row as is_budget_exceeded compares it: characters
\* times the price per million against the budget times a million.
GoogleOverBudget ==
    /\ usage["google"].request_count > 0
    /\ usage["google"].char_count * GooglePricePerMillionChars
         >= DailyBudgetGoogle * Million

OpenAICostToday ==
    usage["openai_trans"].cost_estimated + usage["openai_refine"].cost_estimated

NormalizedCall(c) ==
    [text |-> Strip(c.text.str),
     source_lang |-> Strip(LowerStr(c.source_lang.str)),
     target_lang |-> Strip(LowerStr(c.target_lang.str)),
     format |-> LowerStr(IF c.format.null THEN Plain ELSE c.format.str)]

BothKeyed == digest[1].state = "keyed" /\ digest[2].state = "keyed"

\* C22: two calls of generate_cache_key whose stripped text, lowercased and
\* trimmed source and target, and lowercased format (none = plain) are equal
\* return the same key.
C22_SameNormalizedSameKey ==
    BothKeyed /\ NormalizedCall(pair[1]) = NormalizedCall(pair[2])
        => digest[1].key = digest[2].key

\* " Hi " from "EN " in no format and "Hi" from "en" in plain got one key.
C22_Witness ==
    /\ BothKeyed
    /\ pair[1].text.str = <<" ", "H", "i", " ">> /\ pair[2].text.str = <<"H", "i">>
    /\ pair[1].source_lang.str = <<"E", "N", " ">>
    /\ pair[2].source_lang.str = <<"e", "n">>
    /\ pair[1].target_lang.str = <<"E", "N">> /\ pair[2].target_lang.str = <<"e", "n">>
    /\ pair[1].format = Null /\ pair[2].format = Str(Plain)
    /\ digest[1].key = digest[2].key

\* C23: two calls of generate_cache_key that differ in the stripped text, in
\* the normalized source or target language or in the format hand different
\* composites to the hash.
C23_DifferentNormalizedDifferentKey ==
    BothKeyed /\ NormalizedCall(pair[1]) # NormalizedCall(pair[2])
        => digest[1].key # digest[2].key

\* The rows a sweep of the given age is said to delete: those last accessed
\* before now - days.
Expired(days) ==
    {k \in DOMAIN cache :
        cache[k].present /\ cache[k].last_accessed_at < now - days * SecondsPerDay}

\* C24: delete_expired_entries(days) deletes exactly the rows last accessed
\* before now - days, leaves the others as they were and returns the number
\* deleted; with days = 0 no row is left, rows written or touched just
\* before included, and with an age above every row's age all rows stay.
C24_SweepDeletesExpired ==
    [][\A d \in SweepDays :
          Sweep(d) =>
            /\ \A k \in DOMAIN cache :
                  cache'[k] = IF k \in Expired(d) THEN NoRow ELSE cache[k]
            /\ sweep'.count = Cardinality(Expired(d))
            /\ d = 0 => \A k \in DOMAIN cache : ~cache'[k].present
            /\ (\A k \in DOMAIN cache :
                   cache[k].present => now - cache[k].last_accessed_at < d * SecondsPerDay)
                 => cache' = cache]_vars

\* C27: whatever the pipeline has written and touched and the sweep has
\* deleted, every row with is_refined true names its refinement model, and
\* no row was last accessed before it was created.
C27_RowInvariants ==
    \A k \in DOMAIN cache :
        cache[k].present =>
            /\ cache[k].is_refined => cache[k].refinement_model # ""
            /\ cache[k].last_accessed_at >= cache[k].created_at

\* After a sweep that deleted a row, the pipeline's row is refined and was
\* last accessed on a later day than it was created.
C27_Witness ==
    /\ sweep.count > 0
    /\ cache["k1"].present /\ cache["k1"].is_refined
    /\ cache["k1"].refinement_model = RefinementModel
    /\ cache["k1"].last_accessed_at >= cache["k1"].created_at + SecondsPerDay
    /\ touched[1] > 0

\* The rows of the table that a filter selects.
Matching(f) == {k \in DOMAIN cache : Matches(cache[k], f)}

\* C25: a client that pages through an unchanged table with a fixed filter
\* and a page size of at least 1 is told the same total on every page, the
\* number of matching rows; the pages 1..ceil(total/page_size) together hold
\* every matching row exactly once.
C25_PagesPartitionRows ==
    listing.at = "done" /\ listing.page_size >= 1 =>
        /\ listing.totals = {Cardinality(Matching(listing.filter))}
        /\ Len(listing.items) = Cardinality(Matching(listing.filter))
        /\ {listing.items[i] : i \in DOMAIN listing.items} = Matching(listing.filter)

\* Three rows match, two of them created in the same second, and the client
\* has read them in two pages of two.
C25_Witness ==
    /\ listing.at = "done" /\ listing.page_size = 2 /\ listing.page = 2
    /\ Len(listing.items) = 3
    /\ listing.filter.providers = {"deepl"}
    /\ cache["k1"].created_at = cache["k2"].created_at
    /\ cache["k3"].created_at # cache["k1"].created_at

\* C26: whatever page size is asked for (0, negative, above 100), the first
\* page holds at least one row when a row matches and never more than 100
\* rows, newest first.
C26_PageSizeClamped ==
    listing.at \in {"done", "rejected"} \/ listing.page > 1 =>
        /\ Matching(listing.filter) # {} => Len(listing.first) >= 1
        /\ Len(listing.first) <= MaxPageSize
        /\ \A i, j \in DOMAIN listing.first :
              i < j => cache[listing.first[i]].created_at
                         >= cache[listing.first[j]].created_at

Counters == {"char_count", "token_input", "token_output", "cost_estimated"}

\* C28: no counter of a (date, provider) row ever decreases, and whenever the
\* table changes it is by one call: one row changes, its request_count by 1
\* and all its counters by that call's deltas, in one step.
C28_CountersGrowAtomically ==
    [][/\ \A p \in DOMAIN usage :
            /\ usage'[p].request_count >= usage[p].request_count
            /\ \A f \in Counters : usage'[p][f] >= usage[p][f]
       /\ usage' # usage =>
            \E c \in Caller, p \in DOMAIN usage :
               /\ inc[c].pc = "executed" /\ inc'[c].pc = "committed"
               /\ \A q \in DOMAIN usage \ {p} : usage'[q] = usage[q]
               /\ usage'[p].request_count = usage[p].request_count + 1
               /\ \A f \in Counters :
                     usage'[p][f] = usage[p][f] + inc[c].delta[f]]_vars

\* Two calls have committed on an existing row while a third has executed
\* its statement and not committed: the row shows the two.
C28_Witness ==
    /\ base.request_count > 0
    /\ Cardinality(Committed) = 2
    /\ \E c \in Caller : inc[c].pc = "executed" /\ inc[c].delta # NoDelta
    /\ usage[target].request_count = base.request_count + 2

\* C29: a call of increment_usage_stats on a (date, provider) without a row
\* leaves a row with request_count 1 and the call's deltas; on an existing
\* row it adds 1 to request_count and its delta to each counter; no other
\* row changes; a get that follows returns exactly the row.
C29_IncrementThenGet ==
    [][/\ \A c \in Caller :
            IncrementCommit(c) =>
               /\ usage[target].request_count = 0 =>
                     /\ usage'[target].request_count = 1
                     /\ \A f \in Counters : usage'[target][f] = inc[c].delta[f]
               /\ usage[target].request_count > 0 =>
                     /\ usage'[target].request_count = usage[target].request_count + 1
                     /\ \A f \in Counters :
                           usage'[target][f] = usage[target][f] + inc[c].delta[f]
               /\ \A p \in DOMAIN usage \ {target} : usage'[p] = usage[p]
       /\ UsageGet =>
            /\ got'.row.request_count = base.request_count + Cardinality(Committed)
            /\ \A f \in Counters :
                  got'.row[f] = base[f] + SumOf(Committed, f)]_vars

\* The first call on a row that did not exist has committed and the get
\* that followed returned request_count 1 and the call's deltas.
C29_Witness ==
    /\ base = NoUsage
    /\ got.known /\ got.row.request_count = 1
    /\ \E c \in Caller :
          /\ got.after = {c}
          /\ inc[c].delta # NoDelta
          /\ \A f \in Counters : got.row[f] = inc[c].delta[f]

\* C30: every call of set_quota_exceeded, reset_quota_exceeded and
\* is_quota_exceeded runs while the controller's mutex is held.
C30_QuotaUnderMutex ==
    [][\A p \in ProviderSpellings :
          CtlSetQuota(p) \/ CtlResetQuota(p) \/ CtlAsk(p) => locked]_vars

\* The tier's translate call has returned a result in this request.
Answered(r, t) == result[r].provider = t \/ <<t, "returned">> \in calls[r]

TierIndex(t) == CHOOSE i \in DOMAIN TierOrder : TierOrder[i] = t

\* C34: once a tier's translate call has returned a result, no later tier's
\* translate is invoked in the request and the response carries that tier's
\* text and name, also when the usage write after the call fails.
C34_SuccessEndsChain ==
    \A r \in Observed : \A t \in Tiers :
        Answered(r, t) =>
            /\ \A u \in Tiers :
                  TierIndex(u) > TierIndex(t) => <<u, "translate">> \notin calls[r]
            /\ Returned(r) =>
                  /\ resp[r].success
                  /\ resp[r].provider = t
                  /\ resp[r].text \in {DraftText(t), RefinedText(DraftText(t))}

\* The step invokes method m of the OpenAI client in request r.
InvokesOpenAI(r, m) ==
    /\ <<"openai", m>> \notin calls[r]
    /\ <<"openai", m>> \in calls'[r]

\* C35: at the moment openai.translate or openai.refine is invoked, today's
\* recorded cost of openai_trans plus openai_refine is below the daily LLM
\* budget, whatever the other request in flight has recorded meanwhile.
C35_InvokedUnderBudget ==
    [][\A r \in Observed : \A m \in {"translate", "refine"} :
          InvokesOpenAI(r, m) => ~IsOpenAIBudgetExceeded(usage)]_vars

\* C31: each backend's handle is constructed at most once, whatever the
\* interleaving of the first uses, and every call runs on that one handle.
C31_OneHandle ==
    \A b \in Tiers :
        /\ client[b].built <= 1
        /\ client[b].used \subseteq {client[b].handle} \ {0}
        /\ \A c \in ClientCallers :
             task[c].backend = b /\ task[c].at \in {"checking", "calling"}
                 => task[c].handle = client[b].handle /\ task[c].handle # 0

\* Three requests are inside calls on the same backend at once.
C31_Witness ==
    \E b \in Tiers :
        /\ \A c \in ClientCallers :
             task[c].backend = b /\ task[c].at \in {"checking", "calling"}
        /\ client[b].built = 1

\* C37: once is_available() of the Google client answered False because the
\* lazy initialisation raised, no later call on the same instance answers
\* True, and no pipeline tier goes on to google.translate on that instance.
C37_AvailabilityStable ==
    client["google"].failed =>
        /\ client["google"].last # "yes"
        /\ \A c \in ClientCallers :
             task[c].backend = "google" => task[c].at \notin {"available", "calling"}

\* The callers that are inside a connection scope.
InScope == {c \in ClientCallers :
              db[c].at \in {"init_pragmas", "init_body", "op_pragmas", "op_body"}}

\* C32: the open connections are exactly those of the scopes that callers
\* are inside of, so none is open once every operation has completed,
\* however its scope was left; and a body runs on a connection with the
\* pragmas applied.
C32_ConnectionsClosed ==
    /\ mgr.open = Cardinality(InScope)
    /\ \A c \in ClientCallers :
         db[c].at \in {"init_body", "op_body"} => db[c].pragmas

\* Scopes were left by return, by an exception of the body and by failing
\* pragmas, and every caller is between operations.
C32_Witness ==
    /\ mgr.exits = {"return", "body_raised", "pragmas_raised"}
    /\ InScope = {}
    /\ mgr.open = 0

\* C38: every get_instance() call that returned, also one after a call that
\* failed inside initialize(), returned the one instance and only with its
\* initialization completed; the body of initialize() ran at most once on
\* an initialized instance.
C38_SingletonInitialized ==
    /\ \A c \in ClientCallers :
         db[c].inst # 0 => db[c].inst = mgr.instance /\ db[c].sound
    /\ mgr.initialized => mgr.runs <= 1

Failed(o) == o # "ok"

\* 1, 2, 4, 8: the wait after the i-th failed attempt.
WaitAfter(i) == IF i = 1 THEN 1 ELSE IF i = 2 THEN 2 ELSE IF i = 3 THEN 4 ELSE 8

FetchWithinBounds ==
    /\ Len(fetch.statuses) <= 5
    /\ Len(fetch.waits) <= 4
    /\ \A i \in 1..Len(fetch.waits) :
         fetch.waits[i] = WaitAfter(i) /\ Failed(fetch.statuses[i])
    /\ fetch.at = "done" =>
         /\ Len(fetch.waits) = Len(fetch.statuses) - 1
         /\ fetch.returned \in {"payload", "none"}
         /\ fetch.returned = "payload" <=> fetch.statuses[Len(fetch.statuses)] = "ok"
         /\ fetch.returned = "none" <=>
              Len(fetch.statuses) = 5 /\ \A i \in 1..5 : Failed(fetch.statuses[i])

\* C33: a _fetch_with_retry call always ends: it makes at most 5 attempts,
\* waits 1, 2, 4 and 8 seconds between them and not after the last, returns
\* the payload of the first 200 response that it could read, and returns
\* None after the fifth failed attempt.
C33_FetchTerminates ==
    /\ []FetchWithinBounds
    /\ (fetch.at = "attempt") ~> (fetch.at = "done")

\* Five attempts failed, one of them by an exception, and the call returned
\* None after the waits 1, 2, 4, 8.
C33_Witness ==
    /\ fetch.at = "done"
    /\ fetch.returned = "none"
    /\ fetch.waits = <<1, 2, 4, 8>>
    /\ \E i \in 1..5 : fetch.statuses[i] = "raises"

\* The cost of the characters counted in a summary's google entry has
\* reached the google budget.
SummaryGoogleOver ==
    /\ "google" \in summary.providers
    /\ summary.rows["google"].char_count * GooglePricePerMillionChars
           >= summary.budgets.google.limit * Million

SummaryOpenAICost ==
    SumOver(summary.rows, summary.providers \cap OpenAINames, "cost_estimated")

\* C39: in a summary returned by get_daily_summary(target_date) the budget
\* flags agree with the counters of the same summary, and the totals are the
\* sums over its provider entries.
C39_SummaryConsistent ==
    summary.asked =>
        /\ summary.budgets.google.exceeded <=> SummaryGoogleOver
        /\ summary.budgets.openai.exceeded <=>
               SummaryOpenAICost >= summary.budgets.openai.limit
        /\ summary.total_requests =
               SumOver(summary.rows, summary.providers, "request_count")
        /\ summary.total_cost =
               SumOver(summary.rows, summary.providers, "cost_estimated")

\* The summary of today: here the flags and the counters come from the same
\* rows.
C39_TodayConsistent ==
    summary.asked /\ summary.date = "today" =>
        /\ summary.budgets.google.exceeded <=> SummaryGoogleOver
        /\ summary.budgets.openai.exceeded <=>
               SummaryOpenAICost >= summary.budgets.openai.limit
        /\ summary.total_requests =
               SumOver(summary.rows, summary.providers, "request_count")
        /\ summary.total_cost =
               SumOver(summary.rows, summary.providers, "cost_estimated")

\* A step of request r on the path that serves it from the cache: the lookup
\* that finds the serving row, or the touch and the response.
ServedStep(r) == (pc[r] = "idle" /\ pc'[r] = "touch") \/ TouchStep(r)

RowsOf(k) == {x \in stored : x.cache_key = k}

Written == {i \in ClientCallers : writers[i].at = "done"}

\* C36: once requests for one fingerprint have written, the table holds one
\* row for it; its translated_text, provider, is_refined and
\* refinement_model are together the final values of one of the requests,
\* and its created_at, original_text, char_count and language code are those
\* of the request that inserted it.
C36_OneRowOneWriter ==
    Written # {} =>
        /\ Cardinality(RowsOf("k1")) = 1
        /\ \A x \in RowsOf("k1") :
             /\ \E i \in Written :
                  /\ x.translated_text = writers[i].translated_text
                  /\ x.provider = writers[i].provider
                  /\ x.is_refined = writers[i].is_refined
                  /\ x.refinement_model = writers[i].refinement_model
                  /\ x.last_accessed_at = writers[i].time
             /\ \E j \in Written :
                  /\ writers[j].inserted
                  /\ x.created_at = writers[j].time
                  /\ x.original_text = writers[j].original_text
                  /\ x.char_count = CharCount(writers[j].original_text)
                  /\ x.source_lang = writers[j].source_lang

\* Three requests have written, the last with other final values, another
\* text spelling and at a later second than the one that inserted the row.
C36_Witness ==
    /\ Written = ClientCallers
    /\ \E x \in RowsOf("k1") :
         /\ x.is_refined
         /\ x.last_accessed_at > x.created_at
         /\ \E i \in Written :
              /\ ~writers[i].inserted
              /\ writers[i].original_text # x.original_text
              /\ writers[i].source_lang # x.source_lang
              /\ writers[i].translated_text = x.translated_text

====
